---- MODULE Spec2Model ----
(***************************************************************************)
(* Camera-control subsystem of stl-viewer: the navigation models           *)
(* (ArcballCamera, TrackballCamera, SphericalCamera,                       *)
(* ArcballCameraSpherical), their interaction state machines, and the      *)
(* animated rotation of ArcballCamera.                                     *)
(*                                                                         *)
(* Numbers.  A vec3 is a triple of integers counting multiples of 1/Scale, *)
(* so <<0, 0, 50>> is the point (0, 0, 10) and <<3, 0, -4>> is the unit     *)
(* vector (0.6, 0, -0.8) when Scale = 5.  All arithmetic is exact.  A       *)
(* result that is not a multiple of 1/Scale (an irrational square root, a  *)
(* quotient that does not divide) is the value Off; an action whose        *)
(* result would hold Off is outside the inputs enumerated here.            *)
(* An angle is the pair of its cosine and sine, [c, s], in the same units, *)
(* which is all that quat.setAxisAngle and the rotation read of it; the    *)
(* scalar angles of the animation and of the velocity keys count           *)
(* thousandths of a quarter turn (1000 = pi/2).  Times are milliseconds.   *)
(* The quotient 0 / 0 is NaN, as in the build, and every operation on a    *)
(* NaN operand gives NaN.                                                  *)
(***************************************************************************)
EXTENDS Integers, Sequences, FiniteSets, TLC

VARIABLES
    cam,              \* the navigation model the application constructed
    canvas,           \* HTMLCanvasElement: [width, height] in pixels
    now,              \* performance.now()
    steps,            \* calls and events the camera has handled so far
    keysDown,         \* keys held down, as the TrackballCamera (the one camera that maps keys) was told
    arcball,          \* the ArcballCamera instance
    trackball,        \* the TrackballCamera instance
    spherical,        \* the SphericalCamera instance
    arcballSpherical, \* the ArcballCameraSpherical instance
    fixed,            \* the FixedCamera instance
    renderer,         \* the Renderer: where its #loop stands, whether a model is loaded
    listeners,        \* the event types the camera has a listener registered for
    stl,              \* the bytes handed to STL.parse last and what it did with them
    drag,             \* where the panning drag under way began and the deltas it has passed to pan
    last,             \* the handler or method that ran last, with its input
    turned            \* the animation asked for last and how far update has turned the camera for it

vars == <<cam, canvas, now, steps, keysDown, arcball, trackball, spherical, arcballSpherical,
          fixed, renderer, listeners, stl, drag, last, turned>>

-----------------------------------------------------------------------------
(* Bounds of the exploration *)

\* Largest coordinate (in world units) a camera or its center may reach.
MaxCoord == 16

\* The clock stops advancing here.
MaxNow == 1000

\* A run delivers at most this many calls and events to the camera.
MaxSteps == 5

Step == steps < MaxSteps /\ steps' = steps + 1

\* vec3 components are multiples of 1/Scale.
Scale == 5

-----------------------------------------------------------------------------
(* gl-matrix on the 1/Scale grid *)

Off == <<>>

IsOff(v) == Len(v) = 0

Zero3 == <<0, 0, 0>>

\* The vec3 whose components are all NaN.
NaN3 == <<"NaN">>

IsNaN(v) == Len(v) = 1

\* The angle NaN; no angle has cosine and sine both 0.
NaNAngle == [c |-> 0, s |-> 0]

Abs(n) == IF n < 0 THEN -n ELSE n

Min2(a, b) == IF a <= b THEN a ELSE b

Divides(d, n) == d # 0 /\ n % Abs(d) = 0

\* n / d for d dividing n, either sign.
ExactDiv(n, d) == IF d > 0 THEN n \div d ELSE (-n) \div (-d)

\* The whole r in lo..hi with r * r = n, or -1 when there is none.
Root(n, lo, hi) ==
    IF \E r \in lo..hi : r * r = n THEN CHOOSE r \in lo..hi : r * r = n ELSE -1

\* Square roots of the numbers up to 4 * Scale^2: coordinates of unit vectors.
IsSquare(n) == Root(n, 0, 2 * Scale) >= 0

ISqrt(n) == Root(n, 0, 2 * Scale)

\* vec3.add
add(a, b) ==
    IF IsOff(a) \/ IsOff(b) THEN Off
    ELSE IF IsNaN(a) \/ IsNaN(b) THEN NaN3
    ELSE <<a[1] + b[1], a[2] + b[2], a[3] + b[3]>>

\* vec3.subtract
subtract(a, b) ==
    IF IsOff(a) \/ IsOff(b) THEN Off
    ELSE IF IsNaN(a) \/ IsNaN(b) THEN NaN3
    ELSE <<a[1] - b[1], a[2] - b[2], a[3] - b[3]>>

\* vec3.scale by a whole number k
scale(a, k) ==
    IF IsOff(a) THEN Off
    ELSE IF IsNaN(a) THEN NaN3
    ELSE <<a[1] * k, a[2] * k, a[3] * k>>

\* vec3.scaleAndAdd: a + b * k, k a whole number of world units and b a
\* vector of the grid, so the product is b's integers times k.
scaleAndAdd(a, b, k) == add(a, scale(b, k))

\* The integer a . b: Scale^2 times the dot product of the vectors.
RawDot(a, b) == a[1] * b[1] + a[2] * b[2] + a[3] * b[3]

\* The integer triple a x b: Scale^2 times the cross product of the vectors.
RawCross(a, b) ==
    <<a[2] * b[3] - a[3] * b[2], a[3] * b[1] - a[1] * b[3], a[1] * b[2] - a[2] * b[1]>>

\* v / d, componentwise, when d divides every component.
DivVec(v, d) ==
    IF IsOff(v) THEN Off
    ELSE IF Divides(d, v[1]) /\ Divides(d, v[2]) /\ Divides(d, v[3])
         THEN <<ExactDiv(v[1], d), ExactDiv(v[2], d), ExactDiv(v[3], d)>>
         ELSE Off

\* vec3.cross
cross(a, b) ==
    IF IsOff(a) \/ IsOff(b) THEN Off
    ELSE IF IsNaN(a) \/ IsNaN(b) THEN NaN3
    ELSE DivVec(RawCross(a, b), Scale)

\* The integer |a|: Scale times the length of the vector, between its largest
\* component and the sum of its components; -1 when the length is not on the grid.
RawLength(a) ==
    LET m == CHOOSE x \in {Abs(a[1]), Abs(a[2]), Abs(a[3])} :
                 \A y \in {Abs(a[1]), Abs(a[2]), Abs(a[3])} : y <= x
    IN  Root(RawDot(a, a), m, Abs(a[1]) + Abs(a[2]) + Abs(a[3]))

\* vec3.normalize: a zero vector stays zero (gl-matrix leaves out = a * 0).
normalize(a) ==
    IF IsOff(a) THEN Off
    ELSE IF IsNaN(a) THEN NaN3
    ELSE IF a = Zero3 THEN Zero3
    ELSE IF RawLength(a) > 0 THEN DivVec(scale(a, Scale), RawLength(a))
    ELSE Off

\* The angle of n thousandths of a quarter turn, as [c, s].
QuarterTurns(n) ==
    IF n % 1000 # 0 THEN Off
    ELSE CASE (n \div 1000) % 4 = 0 -> [c |-> Scale, s |-> 0]
           [] (n \div 1000) % 4 = 1 -> [c |-> 0, s |-> Scale]
           [] (n \div 1000) % 4 = 2 -> [c |-> -Scale, s |-> 0]
           [] OTHER -> [c |-> 0, s |-> -Scale]

IsOffAngle(t) == t = Off

\* Math.acos(Math.min(vec3.dot(a, b), 1.0)): the angle in [0, pi] whose
\* cosine is the dot product of a and b.
acosMin1Dot(a, b) ==
    IF IsOff(a) \/ IsOff(b) THEN Off
    ELSE IF IsNaN(a) \/ IsNaN(b) THEN NaNAngle
    ELSE LET d == Min2(RawDot(a, b), Scale * Scale)
         IN  IF Divides(Scale, d)
                /\ Abs(d) <= Scale * Scale
                /\ IsSquare(Scale * Scale - ExactDiv(d, Scale) * ExactDiv(d, Scale))
             THEN [c |-> ExactDiv(d, Scale),
                   s |-> ISqrt(Scale * Scale - ExactDiv(d, Scale) * ExactDiv(d, Scale))]
             ELSE Off

\* -theta
negate(t) == IF IsOffAngle(t) THEN Off ELSE [c |-> t.c, s |-> -t.s]

\* quat.setAxisAngle(out, axis, rad): out = (sin(rad/2) * axis, cos(rad/2)).
\* The axis is taken as given, not normalized.
setAxisAngle(axis, t) ==
    IF IsOff(axis) \/ IsOffAngle(t) THEN Off ELSE [axis |-> axis, c |-> t.c, s |-> t.s]

\* q p q^-1 with q = (w, u), w = cos(rad/2), u = sin(rad/2) * axis, is
\*   p + (2 w (u x p) + 2 u x (u x p)) / |q|^2
\*     = p + (sin(rad) (a x p) + (1 - cos(rad)) a x (a x p)) / N,
\*   N = (1 + cos(rad)) / 2 + (1 - cos(rad)) |a|^2 / 2,
\* and quat.invert divides by |q|^2, so an axis that is not a unit vector
\* still gives a rotation.  sgn = 1 is q p q^-1, sgn = -1 is q^-1 p q.
\* When |q| is zero in exact arithmetic (a zero axis, rad = pi) the build
\* has w = cos(pi/2) = 6.1e-17, not 0, and the result is p.
\* The quaternion, the cross product a x p and the numerator are each
\* computed once, as values drawn from one-element sets.
Conjugate(p, q, sgn) ==
    IF IsOff(p) \/ q = Off THEN Off
    ELSE IF IsNaN(p) THEN NaN3
    ELSE IF IsNaN(q.axis) THEN NaN3
    ELSE IF [c |-> q.c, s |-> q.s] = NaNAngle THEN NaN3
    ELSE LET Turned(qv) ==
                 LET D == (Scale + qv.c) * Scale * Scale
                              + (Scale - qv.c) * RawDot(qv.axis, qv.axis)
                     Num(axp) == add(scale(axp, 2 * sgn * qv.s * Scale),
                                     scale(RawCross(qv.axis, axp), 2 * (Scale - qv.c)))
                 IN  IF D = 0 THEN {p}
                     ELSE {add(p, DivVec(num, D)) :
                               num \in {Num(axp) : axp \in {RawCross(qv.axis, p)}}}
         IN  CHOOSE r \in UNION {Turned(qv) : qv \in {q}} : TRUE

-----------------------------------------------------------------------------
(* The host environment *)

Cameras ==
    {"ArcballCamera", "TrackballCamera", "SphericalCamera", "ArcballCameraSpherical", "FixedCamera"}

\* The canvas each camera is explored on.  Pointer positions are the canvas
\* center and the pixel 3 off it, where the canvas has one: on 11 x 11 the
\* sphere radius is 5 pixels and both positions fall on the grid points of
\* the hemisphere; on 6 x 6 a drag of 3 pixels is a quarter turn of the
\* SphericalCamera.
CanvasOf(c) ==
    IF c = "SphericalCamera" THEN [width |-> 6, height |-> 6]
    ELSE [width |-> 11, height |-> 11]

OffsetsX ==
    {x \in {(canvas.width - 1) \div 2, (canvas.width - 1) \div 2 + 3} : x < canvas.width}

\* The TrackballCamera, whose drags also pan, is explored on horizontal drags.
OffsetsY ==
    IF cam = "TrackballCamera" THEN {(canvas.height - 1) \div 2}
    ELSE {y \in {(canvas.height - 1) \div 2, (canvas.height - 1) \div 2 + 3} : y < canvas.height}

MouseEvents == [offsetX : OffsetsX, offsetY : OffsetsY, shiftKey : BOOLEAN]

\* KeyboardEvent.code: a key of each kind of motion, axis and sign, and one
\* the cameras do not map.
KeyCodes == {"KeyW", "KeyD", "ArrowUp", "ArrowLeft", "Space"}

\* WheelEvent.deltaY
WheelDeltas == {-20, -4, 4}

\* Frame durations handed to update(dt)
Dts == {500, 1000}

\* How far the clock moves between two readings
ClockSteps == {500}

\* Renderer.loadModel: resetView([0, 0, z], [0, 0, 0], [0, 1, 0]) with z
\* from the height of the model's bounding box, 0 for a model without height.
ViewDistances == {0, 10}

\* The up vectors a caller of resetView and moveTo may pass: [0, 1, 0], as
\* the Renderer does, and [0, 0.6, 0.8], which is not perpendicular to the
\* view along the z axis.
ViewUps == {<<0, Scale, 0>>, <<0, 3, 4>>}

\* The event types attachEventHandlers registers a listener for: keydown,
\* keyup, blur and focus on the window, the others on the canvas.
EventTypes ==
    {"keydown", "keyup", "blur", "focus", "mousemove", "mousedown", "mouseup", "mouseleave", "wheel"}

\* attachEventHandlers(), the same in every camera that has handlers:
\* addEventListener for each event type (adding a listener twice adds it once).
AttachEventHandlers(ls) == ls \cup EventTypes

\* detachEventHandlers(), the same in every camera that has handlers:
\* removeEventListener for each event type but wheel.
DetachEventHandlers(ls) == ls \ (EventTypes \ {"wheel"})

\* No file has been handed to STL.parse.
NoFile == [parsed |-> "none"]

\* No panning drag has begun.
NoDrag == [downX |-> 0, downY |-> 0, dx |-> 0, dy |-> 0]

\* #onMouseDown: a pointer-down with shift begins a panning drag at the
\* pointer's position; nothing has been passed to pan yet.
DragOnMouseDown(ev) ==
    IF ev.shiftKey THEN [downX |-> ev.offsetX, downY |-> ev.offsetY, dx |-> 0, dy |-> 0]
    ELSE NoDrag

\* #onMouseMove, case "panning": the dx and dy it passes to pan, added to
\* those passed before; i is the interaction the event finds.
DragOnMouseMove(d, i, ev) ==
    IF i.type = "panning"
    THEN [d EXCEPT !.dx = @ + (ev.offsetX - i.lastMouseX),
                   !.dy = @ + (i.lastMouseY - ev.offsetY)]
    ELSE d

Idle == [type |-> "idle"]

\* What `last` records: the handler or method, the shift modifier of its
\* pointer event, the code of its key event, the interaction tag it found,
\* whether it threw.
Ran(op, shiftKey, was) ==
    [op |-> op, shiftKey |-> shiftKey, code |-> "", was |-> was, threw |-> FALSE]

Threw(op, was) == [Ran(op, FALSE, was) EXCEPT !.threw = TRUE]

\* Whether every vec3 of the set is NaN or on the grid and within MaxCoord.
OnGrid(vs) ==
    \A v \in vs : /\ ~IsOff(v)
                  /\ IF IsNaN(v) THEN TRUE
                     ELSE \A i \in 1..3 : Abs(v[i]) <= MaxCoord * Scale

\* The point of the virtual sphere under the pointer, in screen space, before
\* any normalization: x, y relative to the canvas center over the sphere
\* radius (min(width, height) - 1) / 2, and z from the blended projection.
\* Math.round(width / 2 - 0.99) is (width - 1) \div 2 for an integer width.
\* On a canvas 1 pixel wide or high the radius is 0: at the center x and y
\* are 0 / 0, r2 is NaN, `r2 <= 0.5` is false and z = 0.5 / sqrt(NaN).
Hemisphere(ev) ==
    LET diameter == Min2(canvas.width, canvas.height) - 1
        centerX == (canvas.width - 1) \div 2
        centerY == (canvas.height - 1) \div 2
        xn == 2 * Scale * (ev.offsetX - centerX)
        yn == -(2 * Scale * (ev.offsetY - centerY))
    IN  IF diameter = 0 /\ xn = 0 /\ yn = 0 THEN NaN3
        ELSE IF ~(Divides(diameter, xn) /\ Divides(diameter, yn)) THEN Off
        ELSE LET x == ExactDiv(xn, diameter)
                 y == ExactDiv(yn, diameter)
                 r2 == x * x + y * y
             IN  IF 2 * r2 <= Scale * Scale
                 THEN IF IsSquare(Scale * Scale - r2)
                      THEN <<x, y, ISqrt(Scale * Scale - r2)>>
                      ELSE Off
                 ELSE IF IsSquare(r2) /\ Divides(2 * ISqrt(r2), Scale * Scale)
                      THEN <<x, y, (Scale * Scale) \div (2 * ISqrt(r2))>>
                      ELSE Off

-----------------------------------------------------------------------------
(* ArcballCamera *)

kNegativeZFrontVector == <<0, 0, -Scale>>

\* rotateWithQuat of ArcballCamera.ts: q * (p * q^-1)
ArcballRotateWithQuat(p, q) == Conjugate(p, q, 1)

\* new ArcballCamera(canvas, {position, target, up, fov}) as main.ts builds it
ArcballConstruct(position, target, up) ==
    LET front == normalize(subtract(target, position))
    IN  [position |-> position, target |-> target, up |-> up,
         front |-> front, right |-> normalize(cross(front, up)),
         animation |-> Idle]

\* rotate(axis, theta) as it would be if it left `right` unturned.
ArcballRotateKeepsRight(a, axis, theta) ==
    LET rotation == setAxisAngle(axis, theta)
    IN  [a EXCEPT !.position = ArcballRotateWithQuat(a.position, rotation),
                  !.up = ArcballRotateWithQuat(a.up, rotation),
                  !.front = ArcballRotateWithQuat(a.front, rotation)]

\* ArcballCamera.rotate(axis, theta)
ArcballRotate(a, axis, theta) ==
    LET rotation == setAxisAngle(axis, theta)
    IN  [a EXCEPT !.position = ArcballRotateWithQuat(a.position, rotation),
                  !.up = ArcballRotateWithQuat(a.up, rotation),
                  !.front = ArcballRotateWithQuat(a.front, rotation),
                  !.right = ArcballRotateWithQuat(a.right, rotation)]

ArcballOnGrid(a) ==
    /\ OnGrid({a.position, a.target, a.up, a.front, a.right})
    /\ a.animation.type = "rotating" =>
           OnGrid({a.animation.lastNormalizedCoordinates,
                   a.animation.currentNormalizedCoordinates,
                   a.animation.rotationAxis})

\* ArcballCamera.#calculateNormalizedCoordinates(out, ev): the hemisphere
\* point turned from the screen's frame (view vector [0, 0, -1]) to the
\* camera's (view vector front).  It also overwrites animation.rotationAxis.
\* Called in any state but `rotating` it throws "programming error: this
\* method is only allowed during rotating" before it computes anything.
ArcballCalculateNormalizedCoordinates(a, ev) ==
    IF a.animation.type # "rotating"
    THEN [out |-> Off, rotationAxis |-> Off, threw |-> TRUE]
    ELSE LET rotationAxis == cross(a.front, kNegativeZFrontVector)
             angle == negate(acosMin1Dot(a.front, kNegativeZFrontVector))
             rotation == setAxisAngle(rotationAxis, angle)
         IN  [out |-> normalize(ArcballRotateWithQuat(Hemisphere(ev), rotation)),
              rotationAxis |-> rotationAxis,
              threw |-> FALSE]

\* update(dt) as it would be if it tested the angle alone and not the clock.
ArcballUpdateStepAngleOnly(a, dt) ==
    IF a.animation.type = "animating"
    THEN IF a.animation.currentAngle >= a.animation.targetAngle
         THEN [a EXCEPT !.animation = Idle]
         ELSE LET deltaAngle == a.animation.angularVelocity * dt
              IN  [ArcballRotate(a, a.animation.rotationAxis, QuarterTurns(deltaAngle))
                     EXCEPT !.animation.currentAngle = a.animation.currentAngle + deltaAngle]
    ELSE a

\* ArcballCamera.update(dt)
\* update(dt) as it would be if the animating case did nothing, like the
\* rotating and panning cases.
ArcballUpdateStepSkipsAnimating(a, dt) == a

\* update(dt) as it would be if an animation tick turned the camera and did
\* not add the angle to currentAngle.
ArcballUpdateStepForgetsAngle(a, dt) ==
    IF a.animation.type = "animating"
    THEN IF now >= a.animation.duration + a.animation.startTime
            \/ a.animation.currentAngle >= a.animation.targetAngle
         THEN [a EXCEPT !.animation = Idle]
         ELSE ArcballRotate(a, a.animation.rotationAxis,
                            QuarterTurns(a.animation.angularVelocity * dt))
    ELSE a

ArcballUpdateStep(a, dt) ==
    IF a.animation.type = "animating"
    THEN IF now >= a.animation.duration + a.animation.startTime
            \/ a.animation.currentAngle >= a.animation.targetAngle
         THEN [a EXCEPT !.animation = Idle]
         ELSE LET deltaAngle == a.animation.angularVelocity * dt
              IN  [ArcballRotate(a, a.animation.rotationAxis, QuarterTurns(deltaAngle))
                     EXCEPT !.animation.currentAngle = a.animation.currentAngle + deltaAngle]
    ELSE a

\* The angle this update(dt) passes to rotate (0 when it does not call it).
ArcballUpdateAngle(a, dt) ==
    IF a.animation.type = "animating"
       /\ ~(now >= a.animation.duration + a.animation.startTime
            \/ a.animation.currentAngle >= a.animation.targetAngle)
    THEN a.animation.angularVelocity * dt
    ELSE 0

Arcball_update(dt) ==
    /\ cam = "ArcballCamera"
    /\ LET next == ArcballUpdateStep(arcball, dt)
       IN  arcball' = next /\ ArcballOnGrid(arcball')
    /\ turned' = [turned EXCEPT !.by = @ + ArcballUpdateAngle(arcball, dt)]
    /\ last' = Ran("update", FALSE, arcball.animation.type)
    /\ Step
    /\ UNCHANGED <<cam, canvas, listeners, stl, drag, fixed, now, keysDown, trackball, spherical, arcballSpherical>>

\* Animations the application asks for: axis, theta (thousandths of a quarter
\* turn), duration (ms).  main.ts asks for a full turn over 3000 ms.
AnimationRequests ==
    {[axis |-> <<0, Scale, 0>>, theta |-> 2000, duration |-> 1000],
     [axis |-> <<0, Scale, 0>>, theta |-> 4000, duration |-> 1000],
     [axis |-> <<0, Scale, 0>>, theta |-> -2000, duration |-> 1000]}

\* ArcballCamera.rotateWithAnimation(axis, theta, duration)
ArcballRotateWithAnimation(a, r) ==
    [a EXCEPT !.animation =
        [type |-> "animating",
         startTime |-> now,
         duration |-> r.duration,
         angularVelocity |-> ExactDiv(r.theta, r.duration),
         rotationAxis |-> r.axis,
         currentAngle |-> 0,
         targetAngle |-> r.theta]]

Arcball_rotateWithAnimation(r) ==
    /\ cam = "ArcballCamera"
    /\ arcball' = ArcballRotateWithAnimation(arcball, r)
    /\ turned' = [of |-> r.theta, by |-> 0]
    /\ last' = Ran("rotateWithAnimation", FALSE, arcball.animation.type)
    /\ Step
    /\ UNCHANGED <<cam, canvas, listeners, stl, drag, fixed, renderer, now, keysDown, trackball, spherical, arcballSpherical>>

\* ArcballCamera.#onKeyDown
Arcball_onKeyDown(code) ==
    /\ cam = "ArcballCamera"
    /\ last' = Ran("keydown", FALSE, arcball.animation.type)
    /\ Step
    /\ UNCHANGED <<cam, canvas, listeners, stl, drag, fixed, renderer, now, keysDown, arcball, trackball, spherical, arcballSpherical, turned>>

\* ArcballCamera.#onKeyUp
Arcball_onKeyUp(code) ==
    /\ cam = "ArcballCamera"
    /\ last' = Ran("keyup", FALSE, arcball.animation.type)
    /\ Step
    /\ UNCHANGED <<cam, canvas, listeners, stl, drag, fixed, renderer, now, keysDown, arcball, trackball, spherical, arcballSpherical, turned>>

\* ArcballCamera.#onBlurAndFocus
ArcballOnBlurAndFocus(a) ==
    IF a.animation.type = "animating" THEN a ELSE [a EXCEPT !.animation = Idle]

Arcball_onBlurAndFocus ==
    /\ cam = "ArcballCamera"
    /\ arcball' = ArcballOnBlurAndFocus(arcball)
    /\ last' = Ran("blurfocus", FALSE, arcball.animation.type)
    /\ Step
    /\ UNCHANGED <<cam, canvas, listeners, stl, drag, fixed, renderer, now, keysDown, trackball, spherical, arcballSpherical, turned>>

\* ArcballCamera.moveTo(position, up): up is kept as given.
ArcballMoveTo(a, position, up) ==
    LET front == normalize(subtract(a.target, position))
    IN  [a EXCEPT !.position = position, !.up = up,
                  !.front = front, !.right = normalize(cross(front, up))]

\* moveTo is public; neither the application nor a handler calls it.
Arcball_moveTo(z, up) ==
    /\ cam = "ArcballCamera"
    /\ arcball' = ArcballMoveTo(arcball, <<0, 0, z * Scale>>, up)
    /\ last' = Ran("moveTo", FALSE, arcball.animation.type)
    /\ Step
    /\ UNCHANGED <<cam, canvas, listeners, stl, drag, fixed, renderer, now, keysDown, trackball, spherical, arcballSpherical, turned>>

\* ArcballCamera.#onMouseMove: the camera it leaves, and whether it threw.
ArcballOnMouseMove(a, ev) ==
    IF a.animation.type = "rotating"
    THEN LET calc == ArcballCalculateNormalizedCoordinates(a, ev)
             lastNC == a.animation.lastNormalizedCoordinates
             rotationAxis == normalize(cross(lastNC, calc.out))
             angle == negate(acosMin1Dot(lastNC, calc.out))
         IN  IF calc.threw THEN [camera |-> a, threw |-> TRUE]
             ELSE [camera |-> [ArcballRotate(a, rotationAxis, angle) EXCEPT !.animation =
                                  [type |-> "rotating",
                                   lastNormalizedCoordinates |-> calc.out,
                                   currentNormalizedCoordinates |-> calc.out,
                                   rotationAxis |-> rotationAxis]],
                   threw |-> FALSE]
    ELSE [camera |-> a, threw |-> FALSE]

Arcball_onMouseMove(ev) ==
    /\ cam = "ArcballCamera"
    /\ LET next == ArcballOnMouseMove(arcball, ev)
       IN  /\ arcball' = next.camera
           /\ ArcballOnGrid(arcball')
           /\ last' = [Ran("mousemove", ev.shiftKey, arcball.animation.type)
                         EXCEPT !.threw = next.threw]
    /\ Step
    /\ UNCHANGED <<cam, canvas, listeners, stl, drag, fixed, renderer, now, keysDown, trackball, spherical, arcballSpherical, turned>>

\* #onMouseDown as it would be if it projected the pointer before it
\* installed the rotating payload.
ArcballOnMouseDownProjectsFirst(a, ev) ==
    IF a.animation.type = "animating" THEN [camera |-> a, threw |-> FALSE]
    ELSE IF ev.shiftKey
         THEN [camera |-> [a EXCEPT !.animation = [type |-> "panning"]], threw |-> FALSE]
    ELSE LET calc == ArcballCalculateNormalizedCoordinates(a, ev)
         IN  IF calc.threw THEN [camera |-> a, threw |-> TRUE]
             ELSE [camera |-> [a EXCEPT !.animation =
                                  [type |-> "rotating",
                                   lastNormalizedCoordinates |-> calc.out,
                                   currentNormalizedCoordinates |-> Zero3,
                                   rotationAxis |-> calc.rotationAxis]],
                   threw |-> FALSE]

\* ArcballCamera.#onMouseDown: the camera it leaves, and whether it threw.
ArcballOnMouseDown(a, ev) ==
    IF a.animation.type = "animating" THEN [camera |-> a, threw |-> FALSE]
    ELSE IF ev.shiftKey
         THEN [camera |-> [a EXCEPT !.animation = [type |-> "panning"]], threw |-> FALSE]
    ELSE LET started == [a EXCEPT !.animation =
                            [type |-> "rotating",
                             lastNormalizedCoordinates |-> Zero3,
                             currentNormalizedCoordinates |-> Zero3,
                             rotationAxis |-> Zero3]]
             calc == ArcballCalculateNormalizedCoordinates(started, ev)
         IN  IF calc.threw THEN [camera |-> started, threw |-> TRUE]
             ELSE [camera |-> [started EXCEPT !.animation.lastNormalizedCoordinates = calc.out,
                                              !.animation.rotationAxis = calc.rotationAxis],
                   threw |-> FALSE]

Arcball_onMouseDown(ev) ==
    /\ cam = "ArcballCamera"
    /\ LET next == ArcballOnMouseDown(arcball, ev)
       IN  /\ arcball' = next.camera
           /\ ArcballOnGrid(arcball')
           /\ last' = [Ran("mousedown", ev.shiftKey, arcball.animation.type)
                         EXCEPT !.threw = next.threw]
    /\ Step
    /\ UNCHANGED <<cam, canvas, listeners, stl, drag, fixed, renderer, now, keysDown, trackball, spherical, arcballSpherical, turned>>

\* #onMouseUp as it would be without its `animating` guard.
ArcballOnMouseUpUnguarded(a) == [a EXCEPT !.animation = Idle]

\* ArcballCamera.#onMouseUp, the listener of mouseup and of mouseleave
ArcballOnMouseUp(a) ==
    IF a.animation.type = "animating" THEN a ELSE [a EXCEPT !.animation = Idle]

Arcball_onMouseUp ==
    /\ cam = "ArcballCamera"
    /\ arcball' = ArcballOnMouseUp(arcball)
    /\ last' = Ran("mouseup", FALSE, arcball.animation.type)
    /\ Step
    /\ UNCHANGED <<cam, canvas, listeners, stl, drag, fixed, renderer, now, keysDown, trackball, spherical, arcballSpherical, turned>>

\* ArcballCamera.#onWheel
Arcball_onWheel(deltaY) ==
    /\ cam = "ArcballCamera"
    /\ arcball' = arcball
    /\ last' = Ran("wheel", FALSE, arcball.animation.type)
    /\ Step
    /\ UNCHANGED <<cam, canvas, listeners, stl, drag, fixed, renderer, now, keysDown, trackball, spherical, arcballSpherical, turned>>

\* performance.now() is monotonic; time passes between any two handlers.
\* ArcballCamera is the one camera that reads the clock.
Advance(d) ==
    /\ cam = "ArcballCamera"
    /\ now + d <= MaxNow
    /\ now' = now + d
    /\ UNCHANGED <<cam, canvas, listeners, stl, drag, fixed, renderer, steps, keysDown, arcball, trackball, spherical, arcballSpherical, last, turned>>

NextArcball ==
    \/ \E dt \in Dts : Arcball_update(dt) /\ UNCHANGED renderer
    \/ \E r \in AnimationRequests : Arcball_rotateWithAnimation(r)
    \/ \E code \in {"KeyW"} : Arcball_onKeyDown(code)
    \/ \E code \in {"KeyW"} : Arcball_onKeyUp(code)
    \/ Arcball_onBlurAndFocus
    \/ \E ev \in MouseEvents : Arcball_onMouseMove(ev)
    \/ \E ev \in MouseEvents : Arcball_onMouseDown(ev)
    \/ Arcball_onMouseUp
    \/ \E deltaY \in WheelDeltas : Arcball_onWheel(deltaY)
    \/ \E d \in ClockSteps : Advance(d)

\* update(dt) called by a frame: the same step, counted in `steps` while
\* fewer than MaxSteps calls have been counted.
Arcball_frame(dt) ==
    /\ cam = "ArcballCamera"
    /\ LET next == ArcballUpdateStep(arcball, dt)
       IN  arcball' = next /\ ArcballOnGrid(arcball')
    /\ turned' = [turned EXCEPT !.by =
                      IF arcball.animation.type = "animating" /\ arcball'.animation.type = "animating"
                      THEN @ + arcball'.animation.currentAngle - arcball.animation.currentAngle
                      ELSE @]
    /\ last' = Ran("update", FALSE, arcball.animation.type)
    /\ steps' = IF steps < MaxSteps THEN steps + 1 ELSE steps
    /\ UNCHANGED <<cam, canvas, listeners, stl, drag, fixed, renderer, now, keysDown, trackball, spherical, arcballSpherical>>

NextArcballFrames ==
    \/ \E dt \in Dts : Arcball_frame(dt)
    \/ \E r \in AnimationRequests : Arcball_rotateWithAnimation(r)
    \/ \E code \in {"KeyW"} : Arcball_onKeyDown(code)
    \/ \E code \in {"KeyW"} : Arcball_onKeyUp(code)
    \/ Arcball_onBlurAndFocus
    \/ \E ev \in MouseEvents : Arcball_onMouseMove(ev)
    \/ \E ev \in MouseEvents : Arcball_onMouseDown(ev)
    \/ Arcball_onMouseUp
    \/ \E deltaY \in WheelDeltas : Arcball_onWheel(deltaY)
    \/ \E d \in ClockSteps : Advance(d)

-----------------------------------------------------------------------------
(* TrackballCamera *)

\* TrackballCameraOptions.sensitivity, as the application passes it
SensitivityPan == 1

SensitivityDolly == 1

\* The closest dolly lets the camera come to its center.
MinDistance == 5

positiveZ == <<0, 0, Scale>>

\* rotateWithQuat of TrackballCamera.ts: q^-1 * (p * q)
TrackballRotateWithQuat(p, q) == Conjugate(p, q, -1)

\* TrackballCamera.#recalculate()
TrackballRecalculate(t) ==
    LET front == normalize(subtract(t.center, t.position))
        right == normalize(cross(front, t.up))
        up == normalize(cross(right, front))
    IN  [t EXCEPT !.front = front, !.right = right, !.up = up]

\* TrackballCamera.resetView(position, target, up)
TrackballResetView(t, position, target, up) ==
    TrackballRecalculate([t EXCEPT !.center = target, !.up = up, !.position = position])

\* new TrackballCamera(canvas, {position, target, up, fov, sensitivity})
TrackballConstruct(position, target, up) ==
    TrackballResetView([center |-> Zero3, position |-> Zero3, up |-> Zero3,
                        front |-> Zero3, right |-> Zero3, interaction |-> Idle],
                       position, target, up)

\* TrackballCamera.dolly(dz)
TrackballDolly(t, dz) ==
    LET moved == scaleAndAdd(t.position, t.front, dz)
        staticDollyFront == subtract(t.center, moved)
        position == IF IsOff(staticDollyFront) THEN Off
                    ELSE IF RawDot(staticDollyFront, t.front) < MinDistance * Scale * Scale
                         THEN scaleAndAdd(t.center, t.front, -MinDistance)
                         ELSE moved
    IN  TrackballRecalculate([t EXCEPT !.position = position])

\* TrackballCamera.pan(dx, dy)
TrackballPan(t, dx, dy) ==
    LET scaledX == dx * SensitivityPan
        scaledY == -dy * SensitivityPan
    IN  [t EXCEPT !.center = scaleAndAdd(scaleAndAdd(t.center, t.right, scaledX), t.up, scaledY),
                  !.position = scaleAndAdd(scaleAndAdd(t.position, t.right, scaledX), t.up, scaledY)]

\* rotate(axis, angle) as it would be if it normalized the position as it
\* does up, front and right.
TrackballRotateNormalizesPosition(t, axis, angle) ==
    LET q == setAxisAngle(axis, angle)
    IN  [t EXCEPT !.position = normalize(TrackballRotateWithQuat(t.position, q)),
                  !.up = normalize(TrackballRotateWithQuat(t.up, q)),
                  !.front = normalize(TrackballRotateWithQuat(t.front, q)),
                  !.right = normalize(TrackballRotateWithQuat(t.right, q))]

\* TrackballCamera.rotate(axis, angle)
TrackballRotate(t, axis, angle) ==
    LET q == setAxisAngle(axis, angle)
    IN  [t EXCEPT !.position = TrackballRotateWithQuat(t.position, q),
                  !.up = normalize(TrackballRotateWithQuat(t.up, q)),
                  !.front = normalize(TrackballRotateWithQuat(t.front, q)),
                  !.right = normalize(TrackballRotateWithQuat(t.right, q))]

\* TrackballCamera.#calculateNormalizedCoordinates(out, offsetX, offsetY)
TrackballCalculateNormalizedCoordinates(ev) == normalize(Hemisphere(ev))

TrackballOnGrid(t) ==
    /\ OnGrid({t.center, t.position, t.up, t.front, t.right})
    /\ t.interaction.type = "rotating" =>
           /\ OnGrid({t.interaction.lastNormalizedCoordinates,
                      t.interaction.currentNormalizedCoordinates,
                      t.interaction.rotationAxis})
           /\ t.interaction.initialCameraRotation # Off

\* update(dt) as it would be if a panning tick moved the eye and not the center.
TrackballUpdateEyeOnly(t, dt) ==
    CASE t.interaction.type = "rotatingVelocity" ->
            TrackballRotate(t, t.interaction.axis,
                            QuarterTurns((t.interaction.speed * dt) \div 1000))
      [] t.interaction.type = "panningVelocity" ->
            IF Divides(1000, t.interaction.speed * dt)
            THEN [t EXCEPT !.position = scaleAndAdd(t.position, t.interaction.direction,
                                                    ExactDiv(t.interaction.speed * dt, 1000))]
            ELSE [t EXCEPT !.center = Off]
      [] OTHER -> t

\* TrackballCamera.update(dt): speed is in thousandths of a quarter turn per
\* second (rotatingVelocity) or in world units per second (panningVelocity).
\* update(dt) as it would be if a tick outside the velocity interactions
\* ended the gesture under way.
TrackballUpdateEndsGesture(t, dt) ==
    CASE t.interaction.type = "rotatingVelocity" ->
            TrackballRotate(t, t.interaction.axis,
                            QuarterTurns((t.interaction.speed * dt) \div 1000))
      [] t.interaction.type = "panningVelocity" ->
            IF Divides(1000, t.interaction.speed * dt)
            THEN LET distance == ExactDiv(t.interaction.speed * dt, 1000)
                 IN  [t EXCEPT !.center = scaleAndAdd(t.center, t.interaction.direction, distance),
                               !.position = scaleAndAdd(t.position, t.interaction.direction, distance)]
            ELSE [t EXCEPT !.center = Off]
      [] OTHER -> [t EXCEPT !.interaction = Idle]

TrackballUpdate(t, dt) ==
    CASE t.interaction.type = "rotatingVelocity" ->
            TrackballRotate(t, t.interaction.axis,
                            QuarterTurns((t.interaction.speed * dt) \div 1000))
      [] t.interaction.type = "panningVelocity" ->
            IF Divides(1000, t.interaction.speed * dt)
            THEN LET distance == ExactDiv(t.interaction.speed * dt, 1000)
                 IN  [t EXCEPT !.center = scaleAndAdd(t.center, t.interaction.direction, distance),
                               !.position = scaleAndAdd(t.position, t.interaction.direction, distance)]
            ELSE [t EXCEPT !.center = Off]
      [] OTHER -> t

Trackball_update(dt) ==
    /\ cam = "TrackballCamera"
    /\ LET next == TrackballUpdate(trackball, dt)
       IN  trackball' = next /\ TrackballOnGrid(trackball')
    /\ last' = Ran("update", FALSE, trackball.interaction.type)
    /\ Step
    /\ UNCHANGED <<cam, canvas, listeners, stl, drag, fixed, now, keysDown, arcball, spherical, arcballSpherical, turned>>

\* Math.PI / 2 per second
QuarterTurnPerSecond == 1000

\* The velocity interaction a key starts: [type, axis or direction, speed].
RotatingVelocity(axis, speed) == [type |-> "rotatingVelocity", speed |-> speed, axis |-> axis]

PanningVelocity(direction, speed) == [type |-> "panningVelocity", direction |-> direction, speed |-> speed]

\* #onKeyDown as it would be without the early return on an active
\* interaction.
TrackballOnKeyDownUnguarded(t, code) ==
    CASE code = "KeyW" -> [t EXCEPT !.interaction = RotatingVelocity(t.right, QuarterTurnPerSecond)]
      [] code = "KeyA" -> [t EXCEPT !.interaction = RotatingVelocity(t.up, QuarterTurnPerSecond)]
      [] code = "KeyS" -> [t EXCEPT !.interaction = RotatingVelocity(t.right, -QuarterTurnPerSecond)]
      [] code = "KeyD" -> [t EXCEPT !.interaction = RotatingVelocity(t.up, -QuarterTurnPerSecond)]
      [] code = "ArrowUp" -> [t EXCEPT !.interaction = PanningVelocity(t.up, 10)]
      [] code = "ArrowLeft" -> [t EXCEPT !.interaction = PanningVelocity(t.right, -10)]
      [] code = "ArrowDown" -> [t EXCEPT !.interaction = PanningVelocity(t.up, -10)]
      [] code = "ArrowRight" -> [t EXCEPT !.interaction = PanningVelocity(t.right, 10)]
      [] OTHER -> t

\* TrackballCamera.#onKeyDown
TrackballOnKeyDown(t, code) ==
    IF t.interaction # Idle THEN t
    ELSE CASE code = "KeyW" -> [t EXCEPT !.interaction = RotatingVelocity(t.right, QuarterTurnPerSecond)]
           [] code = "KeyA" -> [t EXCEPT !.interaction = RotatingVelocity(t.up, QuarterTurnPerSecond)]
           [] code = "KeyS" -> [t EXCEPT !.interaction = RotatingVelocity(t.right, -QuarterTurnPerSecond)]
           [] code = "KeyD" -> [t EXCEPT !.interaction = RotatingVelocity(t.up, -QuarterTurnPerSecond)]
           [] code = "ArrowUp" -> [t EXCEPT !.interaction = PanningVelocity(t.up, 10)]
           [] code = "ArrowLeft" -> [t EXCEPT !.interaction = PanningVelocity(t.right, -10)]
           [] code = "ArrowDown" -> [t EXCEPT !.interaction = PanningVelocity(t.up, -10)]
           [] code = "ArrowRight" -> [t EXCEPT !.interaction = PanningVelocity(t.right, 10)]
           [] OTHER -> t

\* At most this many keys are held at once.
MaxKeysDown == 2

Trackball_onKeyDown(code) ==
    /\ cam = "TrackballCamera"
    /\ code \in keysDown \/ Cardinality(keysDown) < MaxKeysDown
    /\ trackball' = TrackballOnKeyDown(trackball, code)
    /\ keysDown' = keysDown \cup {code}
    /\ last' = [Ran("keydown", FALSE, trackball.interaction.type) EXCEPT !.code = code]
    /\ Step
    /\ UNCHANGED <<cam, canvas, listeners, stl, drag, fixed, renderer, now, arcball, spherical, arcballSpherical, turned>>

\* #onKeyUp as it would be if it cleared nothing.
TrackballOnKeyUpKeeps(t, code) == t

\* #onKeyUp as it would be if it cleared whatever interaction is active.
TrackballOnKeyUpClearsAll(t, code) == [t EXCEPT !.interaction = Idle]

\* TrackballCamera.#onKeyUp
TrackballOnKeyUp(t, code) ==
    IF t.interaction.type = "rotatingVelocity" \/ t.interaction.type = "panningVelocity"
    THEN [t EXCEPT !.interaction = Idle]
    ELSE t

\* A keyup follows the keydown of its key.
Trackball_onKeyUp(code) ==
    /\ cam = "TrackballCamera"
    /\ code \in keysDown
    /\ trackball' = TrackballOnKeyUp(trackball, code)
    /\ keysDown' = keysDown \ {code}
    /\ last' = [Ran("keyup", FALSE, trackball.interaction.type) EXCEPT !.code = code]
    /\ Step
    /\ UNCHANGED <<cam, canvas, listeners, stl, drag, fixed, renderer, now, arcball, spherical, arcballSpherical, turned>>

\* TrackballCamera.#onBlurAndFocus
TrackballOnBlurAndFocus(t) == [t EXCEPT !.interaction = Idle]

Trackball_onBlurAndFocus ==
    /\ cam = "TrackballCamera"
    /\ trackball' = TrackballOnBlurAndFocus(trackball)
    /\ last' = Ran("blurfocus", FALSE, trackball.interaction.type)
    /\ Step
    /\ UNCHANGED <<cam, canvas, listeners, stl, drag, fixed, renderer, now, keysDown, arcball, spherical, arcballSpherical, turned>>

\* TrackballCamera.#onMouseMove
TrackballOnMouseMove(t, ev) ==
    CASE t.interaction.type = "rotating" ->
            LET i == t.interaction
                current == TrackballRotateWithQuat(TrackballCalculateNormalizedCoordinates(ev),
                                                   i.initialCameraRotation)
                rotationAxis == normalize(cross(i.lastNormalizedCoordinates, current))
                angle == acosMin1Dot(i.lastNormalizedCoordinates, current)
            IN  [TrackballRotate(t, rotationAxis, angle) EXCEPT !.interaction =
                    [i EXCEPT !.currentNormalizedCoordinates = current,
                              !.rotationAxis = rotationAxis,
                              !.lastNormalizedCoordinates = current]]
      [] t.interaction.type = "panning" ->
            LET dx == ev.offsetX - t.interaction.lastMouseX
                dy == t.interaction.lastMouseY - ev.offsetY
            IN  [TrackballPan(t, dx, dy) EXCEPT !.interaction.lastMouseX = ev.offsetX,
                                                !.interaction.lastMouseY = ev.offsetY]
      [] OTHER -> t

Trackball_onMouseMove(ev) ==
    /\ cam = "TrackballCamera"
    /\ LET next == TrackballOnMouseMove(trackball, ev)
       IN  trackball' = next /\ TrackballOnGrid(trackball')
    /\ last' = Ran("mousemove", ev.shiftKey, trackball.interaction.type)
    /\ Step
    /\ drag' = DragOnMouseMove(drag, trackball.interaction, ev)
    /\ UNCHANGED <<cam, canvas, listeners, stl, fixed, renderer, now, keysDown, arcball, spherical, arcballSpherical, turned>>

\* TrackballCamera.#onMouseDown.  The payload objects are module-level
\* singletons whose fields are all written here before they are read, except
\* currentNormalizedCoordinates, which #onMouseMove writes before reading it.
TrackballOnMouseDown(t, ev) ==
    IF ev.shiftKey
    THEN [t EXCEPT !.interaction =
             [type |-> "panning", lastMouseX |-> ev.offsetX, lastMouseY |-> ev.offsetY]]
    ELSE LET negativeFront == scale(t.front, -1)
             rotationAxis == cross(negativeFront, positiveZ)
             angle == acosMin1Dot(negativeFront, positiveZ)
             initialCameraRotation == setAxisAngle(rotationAxis, angle)
         IN  [t EXCEPT !.interaction =
                 [type |-> "rotating",
                  lastNormalizedCoordinates |->
                      TrackballRotateWithQuat(TrackballCalculateNormalizedCoordinates(ev),
                                              initialCameraRotation),
                  currentNormalizedCoordinates |-> Zero3,
                  rotationAxis |-> rotationAxis,
                  initialCameraRotation |-> initialCameraRotation]]

Trackball_onMouseDown(ev) ==
    /\ cam = "TrackballCamera"
    /\ LET next == TrackballOnMouseDown(trackball, ev)
       IN  trackball' = next /\ TrackballOnGrid(trackball')
    /\ last' = Ran("mousedown", ev.shiftKey, trackball.interaction.type)
    /\ Step
    /\ drag' = DragOnMouseDown(ev)
    /\ UNCHANGED <<cam, canvas, listeners, stl, fixed, renderer, now, keysDown, arcball, spherical, arcballSpherical, turned>>

\* TrackballCamera.#onMouseUp, the listener of mouseup and of mouseleave
TrackballOnMouseUp(t) == [t EXCEPT !.interaction = Idle]

Trackball_onMouseUp ==
    /\ cam = "TrackballCamera"
    /\ trackball' = TrackballOnMouseUp(trackball)
    /\ last' = Ran("mouseup", FALSE, trackball.interaction.type)
    /\ Step
    /\ drag' = NoDrag
    /\ UNCHANGED <<cam, canvas, listeners, stl, fixed, renderer, now, keysDown, arcball, spherical, arcballSpherical, turned>>

\* TrackballCamera.#onWheel
TrackballOnWheel(t, deltaY) == TrackballDolly(t, -deltaY * SensitivityDolly)

Trackball_onWheel(deltaY) ==
    /\ cam = "TrackballCamera"
    /\ LET next == TrackballOnWheel(trackball, deltaY)
       IN  trackball' = next /\ TrackballOnGrid(trackball')
    /\ last' = Ran("wheel", FALSE, trackball.interaction.type)
    /\ Step
    /\ UNCHANGED <<cam, canvas, listeners, stl, drag, fixed, renderer, now, keysDown, arcball, spherical, arcballSpherical, turned>>

Trackball_resetView(z, up) ==
    /\ cam = "TrackballCamera"
    /\ trackball' = TrackballResetView(trackball, <<0, 0, z * Scale>>, Zero3, up)
    /\ last' = Ran("resetView", FALSE, trackball.interaction.type)
    /\ Step
    /\ UNCHANGED <<cam, canvas, listeners, stl, drag, fixed, now, keysDown, arcball, spherical, arcballSpherical, turned>>

NextTrackball ==
    \/ \E z \in ViewDistances : Trackball_resetView(z, <<0, Scale, 0>>) /\ UNCHANGED renderer
    \/ \E dt \in Dts : Trackball_update(dt) /\ UNCHANGED renderer
    \/ \E code \in KeyCodes : Trackball_onKeyDown(code)
    \/ \E code \in KeyCodes : Trackball_onKeyUp(code)
    \/ Trackball_onBlurAndFocus
    \/ \E ev \in MouseEvents : Trackball_onMouseMove(ev)
    \/ \E ev \in MouseEvents : Trackball_onMouseDown(ev)
    \/ Trackball_onMouseUp
    \/ \E deltaY \in WheelDeltas : Trackball_onWheel(deltaY)

-----------------------------------------------------------------------------
(* SphericalCamera *)

\* Angles of the spherical coordinate are whole thousandths of a quarter turn.
HalfTurn == 2000

\* Math.atan2(y, x) for the directions whose angle is a multiple of an eighth
\* of a turn; -1 stands for every other direction.
HasAtan2(y, x) == x = 0 \/ y = 0 \/ Abs(x) = Abs(y)

Atan2(y, x) ==
    CASE y = 0 /\ x >= 0 -> 0
      [] y = 0 /\ x < 0 -> HalfTurn
      [] x = 0 /\ y > 0 -> HalfTurn \div 2
      [] x = 0 /\ y < 0 -> -(HalfTurn \div 2)
      [] x > 0 /\ y > 0 -> HalfTurn \div 4
      [] x < 0 /\ y > 0 -> 3 * (HalfTurn \div 4)
      [] x > 0 /\ y < 0 -> -(HalfTurn \div 4)
      [] OTHER -> -3 * (HalfTurn \div 4)

\* cart2sph of SphericalCamera: theta about the y axis from +z, phi the
\* elevation from the xz plane, r the distance.
cart2sph(v) ==
    IF IsOff(v) THEN Off
    ELSE LET x == v[1]
             y == v[2]
             z == v[3]
             xz == RawLength(<<x, 0, z>>)
             r == RawLength(v)
         IN  IF xz < 0 \/ r < 0 \/ ~HasAtan2(x, z) \/ ~HasAtan2(y, xz) THEN Off
             ELSE [theta |-> Atan2(x, z), phi |-> Atan2(y, xz), r |-> r]

\* sph2cart of SphericalCamera
sph2cart(coord) ==
    IF coord = Off \/ QuarterTurns(coord.theta) = Off \/ QuarterTurns(coord.phi) = Off THEN Off
    ELSE LET t == QuarterTurns(coord.theta)
             f == QuarterTurns(coord.phi)
         IN  <<ExactDiv(coord.r * f.c * t.s, Scale * Scale),
               ExactDiv(coord.r * f.s, Scale),
               ExactDiv(coord.r * f.c * t.c, Scale * Scale)>>

RECURSIVE WrapDown(_)
\* while (res > Math.PI) res -= 2 * Math.PI
WrapDown(res) == IF res > HalfTurn THEN WrapDown(res - 2 * HalfTurn) ELSE res

RECURSIVE WrapUp(_)
\* while (res < -Math.PI) res += 2 * Math.PI
WrapUp(res) == IF res < -HalfTurn THEN WrapUp(res + 2 * HalfTurn) ELSE res

wrappedAngleAdd(angle, dangle) == WrapUp(WrapDown(angle + dangle))

\* cross(front, up) of #recalculate.  The position comes out of sph2cart, where
\* the build has cos(pi/2) = 6.1e-17 for 0: when front and up are parallel in
\* exact arithmetic the build's product is a tiny vector that normalize scales
\* to length 1, a value the grid does not hold.
CrossOfComputed(a, b) ==
    IF IsOff(a) \/ IsOff(b) THEN Off
    ELSE IF a # Zero3 /\ b # Zero3 /\ RawCross(a, b) = Zero3 THEN Off
    ELSE cross(a, b)

\* SphericalCamera.#recalculate()
SphericalRecalculate(sp) ==
    LET position == add(sp.center, sph2cart(sp.coord))
        front == normalize(subtract(position, sp.center))
        right == normalize(CrossOfComputed(front, sp.up))
        up == normalize(cross(right, front))
    IN  [sp EXCEPT !.position = position, !.front = front, !.right = right, !.up = up]

\* SphericalCamera.resetView(position, target, up)
SphericalResetView(sp, position, target, up) ==
    LET front == normalize(subtract(position, target))
    IN  [sp EXCEPT !.center = target, !.up = up, !.position = position,
                   !.coord = cart2sph(subtract(position, target)),
                   !.front = front,
                   !.right = normalize(cross(front, up))]

\* new SphericalCamera(canvas, {position, target, up, fov})
SphericalConstruct(position, target, up) ==
    SphericalResetView([center |-> Zero3, coord |-> [theta |-> 0, phi |-> 0, r |-> 0],
                        position |-> Zero3, up |-> Zero3, front |-> Zero3, right |-> Zero3,
                        worldUp |-> <<0, Scale, 0>>, interaction |-> Idle],
                       position, target, up)

\* rotate(dtheta, dphi) as it would be if it added dphi without wrapping.
SphericalRotatePhiUnwrapped(sp, dtheta, dphi) ==
    IF sp.coord = Off THEN sp
    ELSE SphericalRecalculate(
             [sp EXCEPT !.coord.theta = wrappedAngleAdd(@, ExactDiv(sp.worldUp[2], Scale) * dtheta),
                        !.coord.phi = @ + dphi])

\* SphericalCamera.rotate(dtheta, dphi)
SphericalRotate(sp, dtheta, dphi) ==
    IF sp.coord = Off THEN sp
    ELSE SphericalRecalculate(
             [sp EXCEPT !.coord.theta = wrappedAngleAdd(@, ExactDiv(sp.worldUp[2], Scale) * dtheta),
                        !.coord.phi = wrappedAngleAdd(@, dphi)])

\* SphericalCamera.dolly(dr)
SphericalDolly(sp, dr) ==
    IF sp.coord = Off THEN sp
    ELSE SphericalRecalculate([sp EXCEPT !.coord.r = @ + dr * Scale])

\* pan(dx, dy) as it would be if it recalculated the camera from the moved center.
SphericalPanRecalculates(sp, dx, dy) ==
    SphericalRecalculate(
        [sp EXCEPT !.center = scaleAndAdd(scaleAndAdd(sp.center, sp.right, dx), sp.up, dy)])

\* SphericalCamera.pan(dx, dy)
SphericalPan(sp, dx, dy) ==
    [sp EXCEPT !.center = scaleAndAdd(scaleAndAdd(sp.center, sp.right, dx), sp.up, dy)]

SphericalOnGrid(sp) ==
    /\ OnGrid({sp.center, sp.position, sp.up, sp.front, sp.right})
    /\ sp.coord # Off
    /\ Abs(sp.coord.r) <= MaxCoord * Scale

\* SphericalCamera.update(_dt)
Spherical_update(dt) ==
    /\ cam = "SphericalCamera"
    /\ spherical' = spherical
    /\ last' = Ran("update", FALSE, spherical.interaction.type)
    /\ Step
    /\ UNCHANGED <<cam, canvas, listeners, stl, drag, fixed, now, keysDown, arcball, trackball, arcballSpherical, turned>>

Spherical_resetView(z, up) ==
    /\ cam = "SphericalCamera"
    /\ spherical' = SphericalResetView(spherical, <<0, 0, z * Scale>>, Zero3, up)
    /\ last' = Ran("resetView", FALSE, spherical.interaction.type)
    /\ Step
    /\ UNCHANGED <<cam, canvas, listeners, stl, drag, fixed, now, keysDown, arcball, trackball, arcballSpherical, turned>>

\* rotate is public; #onMouseMove calls it with the angles of the drag.
Spherical_rotate(dtheta, dphi) ==
    /\ cam = "SphericalCamera"
    /\ spherical' = SphericalRotate(spherical, dtheta, dphi)
    /\ SphericalOnGrid(spherical')
    /\ last' = Ran("rotate", FALSE, spherical.interaction.type)
    /\ Step
    /\ UNCHANGED <<cam, canvas, listeners, stl, drag, fixed, renderer, now, keysDown, arcball, trackball, arcballSpherical, turned>>

\* dolly is public and no handler of the camera calls it.
Spherical_dolly(dr) ==
    /\ cam = "SphericalCamera"
    /\ spherical' = SphericalDolly(spherical, dr)
    /\ SphericalOnGrid(spherical')
    /\ last' = Ran("dolly", FALSE, spherical.interaction.type)
    /\ Step
    /\ UNCHANGED <<cam, canvas, listeners, stl, drag, fixed, renderer, now, keysDown, arcball, trackball, arcballSpherical, turned>>

\* SphericalCamera.#onKeyDown
Spherical_onKeyDown(code) ==
    /\ cam = "SphericalCamera"
    /\ spherical' = spherical
    /\ last' = Ran("keydown", FALSE, spherical.interaction.type)
    /\ Step
    /\ UNCHANGED <<cam, canvas, listeners, stl, drag, fixed, renderer, now, keysDown, arcball, trackball, arcballSpherical, turned>>

\* SphericalCamera.#onKeyUp
Spherical_onKeyUp(code) ==
    /\ cam = "SphericalCamera"
    /\ spherical' = spherical
    /\ last' = Ran("keyup", FALSE, spherical.interaction.type)
    /\ Step
    /\ UNCHANGED <<cam, canvas, listeners, stl, drag, fixed, renderer, now, keysDown, arcball, trackball, arcballSpherical, turned>>

\* SphericalCamera.#onBlurAndFocus
SphericalOnBlurAndFocus(sp) == [sp EXCEPT !.interaction = Idle]

Spherical_onBlurAndFocus ==
    /\ cam = "SphericalCamera"
    /\ spherical' = SphericalOnBlurAndFocus(spherical)
    /\ last' = Ran("blurfocus", FALSE, spherical.interaction.type)
    /\ Step
    /\ UNCHANGED <<cam, canvas, listeners, stl, drag, fixed, renderer, now, keysDown, arcball, trackball, arcballSpherical, turned>>

\* -(d / size) * Math.PI in thousandths of a quarter turn; Off when it is not
\* a whole number of them.
DragAngle(d, size) ==
    IF Divides(size, d * HalfTurn) THEN [a |-> -ExactDiv(d * HalfTurn, size)] ELSE Off

\* SphericalCamera.#onMouseMove
\* #onMouseMove as it would be if a panning move left lastMouseX and
\* lastMouseY at the pointer-down position.
SphericalOnMouseMoveKeepsLast(sp, ev) ==
    LET dx == ev.offsetX - sp.interaction.lastMouseX
        dy == sp.interaction.lastMouseY - ev.offsetY
        dtheta == DragAngle(dx, canvas.width)
        dphi == DragAngle(dy, canvas.height)
    IN  CASE sp.interaction.type = "rotating" ->
                IF dtheta = Off \/ dphi = Off THEN [sp EXCEPT !.position = Off]
                ELSE [SphericalRotate(sp, dtheta.a, dphi.a) EXCEPT
                         !.interaction.lastMouseX = ev.offsetX,
                         !.interaction.lastMouseY = ev.offsetY]
          [] sp.interaction.type = "panning" -> SphericalPan(sp, dx, dy)
          [] OTHER -> sp

SphericalOnMouseMove(sp, ev) ==
    LET dx == ev.offsetX - sp.interaction.lastMouseX
        dy == sp.interaction.lastMouseY - ev.offsetY
        dtheta == DragAngle(dx, canvas.width)
        dphi == DragAngle(dy, canvas.height)
    IN  CASE sp.interaction.type = "rotating" ->
                IF dtheta = Off \/ dphi = Off THEN [sp EXCEPT !.position = Off]
                ELSE [SphericalRotate(sp, dtheta.a, dphi.a) EXCEPT
                         !.interaction.lastMouseX = ev.offsetX,
                         !.interaction.lastMouseY = ev.offsetY]
          [] sp.interaction.type = "panning" ->
                [SphericalPan(sp, dx, dy) EXCEPT !.interaction.lastMouseX = ev.offsetX,
                                                 !.interaction.lastMouseY = ev.offsetY]
          [] OTHER -> sp

Spherical_onMouseMove(ev) ==
    /\ cam = "SphericalCamera"
    /\ spherical' = SphericalOnMouseMove(spherical, ev)
    /\ SphericalOnGrid(spherical')
    /\ last' = Ran("mousemove", ev.shiftKey, spherical.interaction.type)
    /\ Step
    /\ drag' = DragOnMouseMove(drag, spherical.interaction, ev)
    /\ UNCHANGED <<cam, canvas, listeners, stl, fixed, renderer, now, keysDown, arcball, trackball, arcballSpherical, turned>>

\* #onMouseDown as it would be if it did not look at the shift modifier.
SphericalOnMouseDownRotating(sp, ev) ==
    [sp EXCEPT !.interaction =
        [type |-> "rotating", lastMouseX |-> ev.offsetX, lastMouseY |-> ev.offsetY]]

\* SphericalCamera.#onMouseDown
SphericalOnMouseDown(sp, ev) ==
    IF ev.shiftKey
    THEN [sp EXCEPT !.interaction =
             [type |-> "panning", lastMouseX |-> ev.offsetX, lastMouseY |-> ev.offsetY]]
    ELSE [sp EXCEPT !.interaction =
             [type |-> "rotating", lastMouseX |-> ev.offsetX, lastMouseY |-> ev.offsetY]]

Spherical_onMouseDown(ev) ==
    /\ cam = "SphericalCamera"
    /\ spherical' = SphericalOnMouseDown(spherical, ev)
    /\ last' = Ran("mousedown", ev.shiftKey, spherical.interaction.type)
    /\ Step
    /\ drag' = DragOnMouseDown(ev)
    /\ UNCHANGED <<cam, canvas, listeners, stl, fixed, renderer, now, keysDown, arcball, trackball, arcballSpherical, turned>>

\* SphericalCamera.#onMouseUp, the listener of mouseup and of mouseleave
SphericalOnMouseUp(sp) == [sp EXCEPT !.interaction = Idle]

Spherical_onMouseUp ==
    /\ cam = "SphericalCamera"
    /\ spherical' = SphericalOnMouseUp(spherical)
    /\ last' = Ran("mouseup", FALSE, spherical.interaction.type)
    /\ Step
    /\ drag' = NoDrag
    /\ UNCHANGED <<cam, canvas, listeners, stl, fixed, renderer, now, keysDown, arcball, trackball, arcballSpherical, turned>>

\* SphericalCamera.#onWheel
Spherical_onWheel(deltaY) ==
    /\ cam = "SphericalCamera"
    /\ spherical' = spherical
    /\ last' = Ran("wheel", FALSE, spherical.interaction.type)
    /\ Step
    /\ UNCHANGED <<cam, canvas, listeners, stl, drag, fixed, renderer, now, keysDown, arcball, trackball, arcballSpherical, turned>>

NextSpherical ==
    \/ \E dt \in Dts : Spherical_update(dt) /\ UNCHANGED renderer
    \/ \E z \in ViewDistances : Spherical_resetView(z, <<0, Scale, 0>>) /\ UNCHANGED renderer
    \/ \E dr \in WheelDeltas : Spherical_dolly(dr)
    \/ \E code \in {"KeyW"} : Spherical_onKeyDown(code)
    \/ \E code \in {"KeyW"} : Spherical_onKeyUp(code)
    \/ Spherical_onBlurAndFocus
    \/ \E ev \in MouseEvents : Spherical_onMouseMove(ev)
    \/ \E ev \in MouseEvents : Spherical_onMouseDown(ev)
    \/ Spherical_onMouseUp
    \/ \E deltaY \in WheelDeltas : Spherical_onWheel(deltaY)

-----------------------------------------------------------------------------
(* ArcballCameraSpherical *)

\* cart2sph of ArcballCameraSpherical.ts, the Octave convention: theta the
\* azimuth about the z axis from +x, phi the elevation from the xy plane.
cart2sphOctave(v) ==
    IF IsOff(v) THEN Off
    ELSE LET x == v[1]
             y == v[2]
             z == v[3]
             xy == RawLength(<<x, y, 0>>)
             r == RawLength(v)
         IN  IF xy < 0 \/ r < 0 \/ ~HasAtan2(y, x) \/ ~HasAtan2(z, xy) THEN Off
             ELSE [theta |-> Atan2(y, x), phi |-> Atan2(z, xy), r |-> r]

\* new ArcballCameraSpherical(canvas, {position, target, up, fov})
ArcballSphericalConstruct(position, target, up) ==
    LET front == normalize(subtract(target, position))
    IN  [positionCartesian |-> position,
         position |-> cart2sphOctave(position),
         center |-> target,
         up |-> up,
         front |-> front,
         right |-> normalize(cross(front, up)),
         animation |-> Idle]

\* ArcballCameraSpherical.#calculateNormalizedCoordinates: the point is kept
\* as projected, without rotation and without normalization.
ArcballSphericalCalculateNormalizedCoordinates(ev) == Hemisphere(ev)

\* ArcballCameraSpherical.update(dt): throw new Error("Method not implemented.")
ArcballSpherical_update(dt) ==
    /\ cam = "ArcballCameraSpherical"
    /\ arcballSpherical' = arcballSpherical
    /\ last' = Threw("update", arcballSpherical.animation.type)
    /\ Step
    /\ UNCHANGED <<cam, canvas, listeners, stl, drag, fixed, now, keysDown, arcball, trackball, spherical, turned>>

\* ArcballCameraSpherical.#onKeyDown
ArcballSpherical_onKeyDown(code) ==
    /\ cam = "ArcballCameraSpherical"
    /\ arcballSpherical' = arcballSpherical
    /\ last' = Ran("keydown", FALSE, arcballSpherical.animation.type)
    /\ Step
    /\ UNCHANGED <<cam, canvas, listeners, stl, drag, fixed, renderer, now, keysDown, arcball, trackball, spherical, turned>>

\* ArcballCameraSpherical.#onKeyUp
ArcballSpherical_onKeyUp(code) ==
    /\ cam = "ArcballCameraSpherical"
    /\ arcballSpherical' = arcballSpherical
    /\ last' = Ran("keyup", FALSE, arcballSpherical.animation.type)
    /\ Step
    /\ UNCHANGED <<cam, canvas, listeners, stl, drag, fixed, renderer, now, keysDown, arcball, trackball, spherical, turned>>

\* ArcballCameraSpherical.#onBlurAndFocus = () => {}
ArcballSpherical_onBlurAndFocus ==
    /\ cam = "ArcballCameraSpherical"
    /\ arcballSpherical' = arcballSpherical
    /\ last' = Ran("blurfocus", FALSE, arcballSpherical.animation.type)
    /\ Step
    /\ UNCHANGED <<cam, canvas, listeners, stl, drag, fixed, renderer, now, keysDown, arcball, trackball, spherical, turned>>

\* ArcballCameraSpherical.#onMouseMove
ArcballSphericalOnMouseMove(a, ev) ==
    IF a.animation.type = "rotating"
    THEN [a EXCEPT !.animation.currentNormalizedCoordinates =
                       ArcballSphericalCalculateNormalizedCoordinates(ev)]
    ELSE a

ArcballSphericalOnGrid(a) ==
    a.animation.type = "rotating" =>
        OnGrid({a.animation.lastNormalizedCoordinates, a.animation.currentNormalizedCoordinates})

ArcballSpherical_onMouseMove(ev) ==
    /\ cam = "ArcballCameraSpherical"
    /\ arcballSpherical' = ArcballSphericalOnMouseMove(arcballSpherical, ev)
    /\ ArcballSphericalOnGrid(arcballSpherical')
    /\ last' = Ran("mousemove", ev.shiftKey, arcballSpherical.animation.type)
    /\ Step
    /\ UNCHANGED <<cam, canvas, listeners, stl, drag, fixed, renderer, now, keysDown, arcball, trackball, spherical, turned>>

\* ArcballCameraSpherical.#onMouseDown.  animationRotating is a module-level
\* object: currentNormalizedCoordinates is written by #onMouseMove only, and
\* no handler reads it.
ArcballSphericalOnMouseDown(a, ev) ==
    IF ev.shiftKey
    THEN [a EXCEPT !.animation = [type |-> "panning"]]
    ELSE [a EXCEPT !.animation =
             [type |-> "rotating",
              lastNormalizedCoordinates |-> ArcballSphericalCalculateNormalizedCoordinates(ev),
              currentNormalizedCoordinates |-> Zero3]]

ArcballSpherical_onMouseDown(ev) ==
    /\ cam = "ArcballCameraSpherical"
    /\ arcballSpherical' = ArcballSphericalOnMouseDown(arcballSpherical, ev)
    /\ ArcballSphericalOnGrid(arcballSpherical')
    /\ last' = Ran("mousedown", ev.shiftKey, arcballSpherical.animation.type)
    /\ Step
    /\ UNCHANGED <<cam, canvas, listeners, stl, drag, fixed, renderer, now, keysDown, arcball, trackball, spherical, turned>>

\* ArcballCameraSpherical.#onMouseUp, the listener of mouseup and of mouseleave
ArcballSphericalOnMouseUp(a) == [a EXCEPT !.animation = Idle]

ArcballSpherical_onMouseUp ==
    /\ cam = "ArcballCameraSpherical"
    /\ arcballSpherical' = ArcballSphericalOnMouseUp(arcballSpherical)
    /\ last' = Ran("mouseup", FALSE, arcballSpherical.animation.type)
    /\ Step
    /\ UNCHANGED <<cam, canvas, listeners, stl, drag, fixed, renderer, now, keysDown, arcball, trackball, spherical, turned>>

\* ArcballCameraSpherical.#onWheel
ArcballSpherical_onWheel(deltaY) ==
    /\ cam = "ArcballCameraSpherical"
    /\ arcballSpherical' = arcballSpherical
    /\ last' = Ran("wheel", FALSE, arcballSpherical.animation.type)
    /\ Step
    /\ UNCHANGED <<cam, canvas, listeners, stl, drag, fixed, renderer, now, keysDown, arcball, trackball, spherical, turned>>

NextArcballSpherical ==
    \/ \E dt \in Dts : ArcballSpherical_update(dt) /\ UNCHANGED renderer
    \/ \E code \in {"KeyW"} : ArcballSpherical_onKeyDown(code)
    \/ \E code \in {"KeyW"} : ArcballSpherical_onKeyUp(code)
    \/ ArcballSpherical_onBlurAndFocus
    \/ \E ev \in MouseEvents : ArcballSpherical_onMouseMove(ev)
    \/ \E ev \in MouseEvents : ArcballSpherical_onMouseDown(ev)
    \/ ArcballSpherical_onMouseUp
    \/ \E deltaY \in WheelDeltas : ArcballSpherical_onWheel(deltaY)

-----------------------------------------------------------------------------
(* FixedCamera *)

\* new FixedCamera(position, front, up, fov): right = normalize(front x up).
\* fov is in degrees here (main.ts passes 45 * Math.PI / 180).
FixedConstruct(position, front, up, fov) ==
    [position |-> position, front |-> front, up |-> up,
     right |-> normalize(cross(front, up)), fov |-> fov]

\* A moveTo that also turns the camera to look at the origin.
FixedMoveToLooksAtOrigin(f, position) ==
    [f EXCEPT !.position = position, !.front = normalize(subtract(Zero3, position))]

\* moveTo(position): vec3.copy(this.#position, position)
FixedMoveTo(f, position) == [f EXCEPT !.position = position]

\* The positions a caller of FixedCamera.moveTo passes.
FixedPositions == {<<x, y, z>> : x \in {0, Scale}, y \in {0, Scale}, z \in {0, 4 * Scale, 10 * Scale}}

Fixed_moveTo(position) ==
    /\ cam = "FixedCamera"
    /\ fixed' = FixedMoveTo(fixed, position)
    /\ last' = Ran("moveTo", FALSE, "idle")
    /\ Step
    /\ UNCHANGED <<cam, canvas, listeners, stl, drag, renderer, now, keysDown, arcball, trackball, spherical, arcballSpherical, turned>>

\* The class declares no update: camera.update(dt) on a FixedCamera is a
\* call of undefined, a TypeError.
Fixed_update(dt) ==
    /\ cam = "FixedCamera"
    /\ fixed' = fixed
    /\ last' = Threw("update", "idle")
    /\ Step
    /\ UNCHANGED <<cam, canvas, listeners, stl, drag, now, keysDown, arcball, trackball, spherical, arcballSpherical, turned>>

NextFixed ==
    \/ \E position \in FixedPositions : Fixed_moveTo(position)
    \/ \E dt \in Dts : Fixed_update(dt) /\ UNCHANGED renderer

-----------------------------------------------------------------------------
(* Renderer *)

\* The interaction of the camera the application constructed (a FixedCamera
\* has no interaction state).
Interaction ==
    CASE cam = "ArcballCamera" -> arcball.animation
      [] cam = "TrackballCamera" -> trackball.interaction
      [] cam = "SphericalCamera" -> spherical.interaction
      [] cam = "FixedCamera" -> Idle
      [] OTHER -> arcballSpherical.animation

\* new Renderer(canvas, camera): no model loaded, no frame running.  pc is
\* the call of #loop the frame stands before (0 between frames); updates
\* and reads are the calls of camera.update and the camera readings the
\* frame has made so far.
RendererConstruct == [pc |-> 0, stlModel |-> FALSE, updates |-> 0, reads |-> {}]

\* A #loop that renders before it updates.
RendererLoopRendersFirst == <<"render", "update">>

\* #loop = (dt) => { this.#update(dt); this.#render(dt); }
RendererLoop == <<"update", "render">>

\* pc after the call at pc returned.
RendererReturn(pc) == IF pc < Len(RendererLoop) THEN pc + 1 ELSE 0

\* What #render reads of the camera: nothing until a model is loaded.
RendererReads(r) ==
    IF r.stlModel THEN {"perspectiveProjectionMatrix", "cameraMatrix", "position"} ELSE {}

\* The managed animation frame arrives and calls #loop.
Renderer_loop ==
    /\ renderer.pc = 0
    /\ steps < MaxSteps
    /\ renderer' = [renderer EXCEPT !.pc = 1, !.updates = 0, !.reads = {}]
    /\ UNCHANGED <<cam, canvas, listeners, stl, drag, fixed, now, steps, keysDown, arcball, trackball, spherical, arcballSpherical, last, turned>>

\* #update(dt): this.#camera.update(dt).  An update that throws ends the
\* frame.
Renderer_update(dt) ==
    /\ renderer.pc > 0
    /\ RendererLoop[renderer.pc] = "update"
    /\ \/ Arcball_update(dt)
       \/ Trackball_update(dt)
       \/ Spherical_update(dt)
       \/ ArcballSpherical_update(dt)
       \/ Fixed_update(dt)
    /\ renderer' = [renderer EXCEPT !.pc = IF last'.threw THEN 0 ELSE RendererReturn(@),
                                    !.updates = @ + 1]

\* #render(dt): the canvas takes the size of its element (the same, here),
\* and the camera is read when a model is loaded.
Renderer_render ==
    /\ renderer.pc > 0
    /\ RendererLoop[renderer.pc] = "render"
    /\ renderer' = [renderer EXCEPT !.pc = RendererReturn(@), !.reads = RendererReads(renderer)]
    /\ UNCHANGED <<cam, canvas, listeners, stl, drag, fixed, now, steps, keysDown, arcball, trackball, spherical, arcballSpherical, last, turned>>

\* loadModel(stl): this.#camera.resetView([0, 0, z], [0, 0, 0], [0, 1, 0]),
\* then the model is set.  TrackballCamera and SphericalCamera have a
\* resetView; on the other cameras the call is a TypeError and the model
\* stays unset.
Renderer_loadModel(z) ==
    /\ renderer.pc = 0
    /\ IF cam \in {"TrackballCamera", "SphericalCamera"}
       THEN /\ \/ Trackball_resetView(z, <<0, Scale, 0>>)
               \/ Spherical_resetView(z, <<0, Scale, 0>>)
            /\ renderer' = [renderer EXCEPT !.stlModel = TRUE]
       ELSE /\ last' = Threw("resetView", Interaction.type)
            /\ Step
            /\ UNCHANGED <<cam, canvas, listeners, stl, drag, fixed, renderer, now, keysDown, arcball, trackball, spherical, arcballSpherical, turned>>

-----------------------------------------------------------------------------
(* Attaching and detaching the handlers *)

Camera_attachEventHandlers ==
    /\ cam # "FixedCamera"
    /\ listeners' = AttachEventHandlers(listeners)
    /\ last' = Ran("attachEventHandlers", FALSE, Interaction.type)
    /\ Step
    /\ UNCHANGED <<cam, canvas, stl, drag, fixed, renderer, now, keysDown, arcball, trackball, spherical, arcballSpherical, turned>>

Camera_detachEventHandlers ==
    /\ cam # "FixedCamera"
    /\ listeners' = DetachEventHandlers(listeners)
    /\ last' = Ran("detachEventHandlers", FALSE, Interaction.type)
    /\ Step
    /\ UNCHANGED <<cam, canvas, stl, drag, fixed, renderer, now, keysDown, arcball, trackball, spherical, arcballSpherical, turned>>

\* The browser delivers an event to the camera when a listener for its type
\* is registered.
NextHandlers ==
    \/ Camera_attachEventHandlers
    \/ Camera_detachEventHandlers
    \/ "keydown" \in listeners /\ \E code \in KeyCodes : Trackball_onKeyDown(code)
    \/ "mousedown" \in listeners /\ \E ev \in MouseEvents : Trackball_onMouseDown(ev)
    \/ "wheel" \in listeners /\ \E deltaY \in WheelDeltas : Trackball_onWheel(deltaY)
    \/ "mousedown" \in listeners /\ \E ev \in MouseEvents : Arcball_onMouseDown(ev)
    \/ "wheel" \in listeners /\ \E deltaY \in WheelDeltas : Arcball_onWheel(deltaY)
    \/ "mousedown" \in listeners /\ \E ev \in MouseEvents : Spherical_onMouseDown(ev)
    \/ "wheel" \in listeners /\ \E deltaY \in WheelDeltas : Spherical_onWheel(deltaY)

-----------------------------------------------------------------------------
(* STL.parse *)

(* A float is [k, v]: a number (v is twice its value, so that halves of   *)
(* whole numbers are exact), an infinity (v is its sign) or NaN.  The     *)
(* float32 values of a file are the values its bytes encode.              *)
Float(n) == [k |-> "num", v |-> 2 * n]

PositiveInfinity == [k |-> "inf", v |-> 1]

NegativeInfinity == [k |-> "inf", v |-> -1]

FloatNaN == [k |-> "nan", v |-> 0]

\* x < y on floats: false when either is NaN.
FloatLess(x, y) ==
    IF x.k = "nan" \/ y.k = "nan" THEN FALSE
    ELSE IF x.k = "inf" THEN x.v < 0 /\ y # NegativeInfinity
    ELSE IF y.k = "inf" THEN y.v > 0
    ELSE x.v < y.v

\* x + y on floats: an infinity plus the opposite infinity is NaN.
FloatAdd(x, y) ==
    IF x.k = "nan" \/ y.k = "nan" THEN FloatNaN
    ELSE IF x.k = "inf" /\ y.k = "inf" THEN IF x.v = y.v THEN x ELSE FloatNaN
    ELSE IF x.k = "inf" THEN x
    ELSE IF y.k = "inf" THEN y
    ELSE [k |-> "num", v |-> x.v + y.v]

FloatNegate(x) == [x EXCEPT !.v = -x.v]

\* x - y on floats
FloatSubtract(x, y) == FloatAdd(x, FloatNegate(y))

\* x / 2 on floats
FloatHalf(x) ==
    IF x.k = "num" THEN IF x.v % 2 = 0 THEN [x EXCEPT !.v = x.v \div 2] ELSE Off
    ELSE x

\* The text the parser looks for in the header.
Solid == <<"s", "o", "l", "i", "d">>

\* String.indexOf: the first index (from 0) at which the text occurs, or -1.
IndexOf(str, text) ==
    LET at == {k \in 0..(Len(str) - Len(text)) : SubSeq(str, k + 1, k + Len(text)) = text}
    IN  IF at = {} THEN -1 ELSE CHOOSE k \in at : \A m \in at : k <= m

\* DataView.getUint32(80, true): the four bytes read least significant first.
getUint32(bytes) ==
    bytes[1] + 256 * bytes[2] + 65536 * bytes[3] + 16777216 * bytes[4]

(* A file is [byteLength, header, count, triangles]: the first 80 bytes    *)
(* as text, the four bytes at offset 80 and, for every whole 50 bytes     *)
(* after offset 84, the floats and the attribute they hold.               *)
\* Float32Array of 2 * 9 * triangleCount as the loop fills it: positions at
\* 0..2, 6..8, 12..14 of each 18, the computed normal n1 (the component is
\* kept, not its value) at 3..5, 9..11, 15..17.
STLVertices(file, triangleCount) ==
    [n \in 1..(18 * triangleCount) |->
        LET t == file.triangles[((n - 1) \div 18) + 1]
            o == (n - 1) % 18
        IN  CASE o \in 0..2 -> t.v1[o + 1]
              [] o \in 6..8 -> t.v2[o - 5]
              [] o \in 12..14 -> t.v3[o - 11]
              [] OTHER -> [k |-> "normal", v |-> o % 3]]

\* The loop of the STL constructor over the first n vertices: box is
\* [min, max] after them.
RECURSIVE STLBounds(_, _)
STLBounds(vertices, n) ==
    IF n = 0
    THEN [min |-> <<PositiveInfinity, PositiveInfinity, PositiveInfinity>>,
          max |-> <<NegativeInfinity, NegativeInfinity, NegativeInfinity>>]
    ELSE LET box == STLBounds(vertices, n - 1)
             xyz == [c \in 1..3 |-> vertices[(n - 1) * 6 + c]]
         IN  [min |-> [c \in 1..3 |-> IF FloatLess(xyz[c], box.min[c]) THEN xyz[c] ELSE box.min[c]],
              max |-> [c \in 1..3 |-> IF FloatLess(box.max[c], xyz[c]) THEN xyz[c] ELSE box.max[c]]]

\* STL.constructor: the bounding box of the vertices.
STLBoundingBox(vertices, triangleCount) ==
    LET box == STLBounds(vertices, triangleCount * 3)
    IN  [min |-> box.min,
         max |-> box.max,
         scale |-> [c \in 1..3 |-> FloatSubtract(box.max[c], box.min[c])],
         center |-> [c \in 1..3 |-> FloatHalf(FloatAdd(box.min[c], box.max[c]))]]

\* What STL.parse throws: nothing is returned.
STLThrow(file, error, i) ==
    [parsed |-> error, file |-> file, triangleCount |-> 0, vertices |-> <<>>,
     attributeBytes |-> <<>>, boundingBox |-> STLBoundingBox(<<>>, 0), i |-> i]

\* STL.parse as it would be if it accepted a buffer longer than the triangle
\* count calls for.
STLParseAtLeast(file) ==
    IF file.byteLength < 84 THEN STLThrow(file, "STLParseError", 0)
    ELSE IF IndexOf(file.header, Solid) # -1 THEN STLThrow(file, "STLParseError", 80)
    ELSE LET triangleCount == getUint32(file.count)
             expectedByteLength == 84 + triangleCount * 50
         IN  IF file.byteLength < expectedByteLength
             THEN STLThrow(file, "STLParseError", 84)
             ELSE IF triangleCount > Len(file.triangles)
                  THEN STLThrow(file, "RangeError", 84 + 50 * (Len(file.triangles) + 1))
                  ELSE LET vertices == STLVertices(file, triangleCount)
                       IN  [parsed |-> "STL", file |-> file,
                            triangleCount |-> triangleCount,
                            vertices |-> vertices,
                            attributeBytes |-> [j \in 1..triangleCount |-> file.triangles[j].attribute],
                            boundingBox |-> STLBoundingBox(vertices, triangleCount),
                            i |-> 84 + 50 * triangleCount]

\* STL.parse(data).  i is the offset after the last read; the DataView
\* throws a RangeError on a read that passes the end of the buffer, which is
\* the first read of a triangle the buffer does not hold whole.
STLParse(file) ==
    IF file.byteLength < 84 THEN STLThrow(file, "STLParseError", 0)
    ELSE IF IndexOf(file.header, Solid) # -1 THEN STLThrow(file, "STLParseError", 80)
    ELSE LET triangleCount == getUint32(file.count)
             expectedByteLength == 84 + triangleCount * 50
         IN  IF file.byteLength # expectedByteLength
             THEN STLThrow(file, "STLParseError", 84)
             ELSE IF triangleCount > Len(file.triangles)
                  THEN STLThrow(file, "RangeError", 84 + 50 * (Len(file.triangles) + 1))
                  ELSE LET vertices == STLVertices(file, triangleCount)
                       IN  [parsed |-> "STL", file |-> file,
                            triangleCount |-> triangleCount,
                            vertices |-> vertices,
                            attributeBytes |-> [j \in 1..triangleCount |-> file.triangles[j].attribute],
                            boundingBox |-> STLBoundingBox(vertices, triangleCount),
                            i |-> 84 + 50 * triangleCount]

\* The byte lengths explored: the empty buffer, one byte short of the count,
\* a file of no triangle, of one and of two, and files with a byte or
\* a triangle's worth of bytes too many or too few.
ByteLengths == {0, 83, 84, 85, 134, 184}

\* The header texts explored, as [text, at]: text at offset `at` of a header
\* of blanks, cut at 80 bytes.
HeaderTexts ==
    {[text |-> <<>>, at |-> 0],
     [text |-> Solid, at |-> 0],
     [text |-> Solid, at |-> 75],
     [text |-> Solid, at |-> 77]}

STLHeader(h, byteLength) ==
    LET whole == [n \in 1..(80 + Len(h.text)) |->
                     IF n > h.at /\ n <= h.at + Len(h.text) THEN h.text[n - h.at] ELSE " "]
    IN  SubSeq(whole, 1, IF byteLength < 80 THEN byteLength ELSE 80)

\* The bytes at offset 80: counts 0, 1, 2, 256 and 2^24.
CountBytes == {<<0, 0, 0, 0>>, <<1, 0, 0, 0>>, <<2, 0, 0, 0>>, <<0, 1, 0, 0>>, <<0, 0, 0, 1>>}

\* The triangles explored: one in the plane z = 0, one with height in every
\* direction, one with a vertex at infinity and one of NaNs.
TriangleData ==
    LET V(x, y, z) == <<Float(x), Float(y), Float(z)>>
        N == <<FloatNaN, FloatNaN, FloatNaN>>
    IN  {[normal |-> V(0, 0, 1), v1 |-> V(0, 0, 0), v2 |-> V(1, 0, 0), v3 |-> V(0, 1, 0), attribute |-> 0],
         [normal |-> V(0, 0, 1), v1 |-> V(-1, -1, 2), v2 |-> V(2, 0, 0), v3 |-> V(0, 3, -2), attribute |-> 1],
         [normal |-> V(0, 0, 1), v1 |-> V(0, 0, 0), v2 |-> <<PositiveInfinity, Float(0), Float(0)>>,
          v3 |-> V(0, 1, 0), attribute |-> 0],
         [normal |-> N, v1 |-> N, v2 |-> N, v3 |-> N, attribute |-> 0]}

\* The ArrayBuffers handed to STL.parse.
Files ==
    UNION {{[byteLength |-> n,
             header |-> STLHeader(h, n),
             count |-> c,
             triangles |-> ts] :
                h \in HeaderTexts,
                c \in IF n < 84 THEN {<<0, 0, 0, 0>>} ELSE CountBytes,
                ts \in [1..(IF n < 84 THEN 0 ELSE (n - 84) \div 50) -> TriangleData]} :
           n \in ByteLengths}

\* STL.parse(data), once per buffer.
STL_parse ==
    /\ stl.parsed = "none"
    /\ stl' = STLParse(stl.file)
    /\ last' = Ran("parse", FALSE, Interaction.type)
    /\ Step
    /\ UNCHANGED <<cam, canvas, listeners, drag, fixed, renderer, now, keysDown, arcball, trackball, spherical, arcballSpherical, turned>>

-----------------------------------------------------------------------------
(* Construction *)

\* The application constructs one camera, cam, and attaches its handlers;
\* main.ts gives it position [0, 0, 4], target [0, 0, 0], up [0, 1, 0].
InitWith(c, cv) ==
    /\ cam = c
    /\ canvas = cv
    /\ now = 0
    /\ steps = 0
    /\ keysDown = {}
    /\ arcball = ArcballConstruct(<<0, 0, 4 * Scale>>, Zero3, <<0, Scale, 0>>)
    /\ trackball = TrackballConstruct(<<0, 0, 10 * Scale>>, Zero3, <<0, Scale, 0>>)
    /\ spherical = SphericalConstruct(<<0, 0, 4 * Scale>>, Zero3, <<0, Scale, 0>>)
    /\ arcballSpherical = ArcballSphericalConstruct(<<0, 0, 4 * Scale>>, Zero3, <<0, Scale, 0>>)
    /\ fixed = FixedConstruct(<<0, 0, 4 * Scale>>, <<0, 0, -Scale>>, <<0, Scale, 0>>, 45)
    /\ renderer = RendererConstruct
    /\ listeners = AttachEventHandlers({})
    /\ stl = NoFile
    /\ drag = NoDrag
    /\ last = Ran("construct", FALSE, "idle")
    /\ turned = [of |-> 0, by |-> 0]

InitArcball == InitWith("ArcballCamera", CanvasOf("ArcballCamera"))

SpecArcball == InitArcball /\ [][NextArcball]_vars

\* The ArcballCamera under a frame scheduler that never stops: update(dt)
\* arrives every frame, however many calls the camera has handled, and
\* performance.now() moves on (up to MaxNow) between them.  The calls and
\* events other than update remain those of NextArcball.
SpecArcballFrames ==
    /\ InitArcball
    /\ [][NextArcballFrames]_vars
    /\ WF_vars(\E dt \in Dts : Arcball_frame(dt))
    /\ WF_vars(\E d \in ClockSteps : Advance(d))

InitTrackball == InitWith("TrackballCamera", CanvasOf("TrackballCamera"))

SpecTrackball == InitTrackball /\ [][NextTrackball]_vars

InitSpherical == InitWith("SphericalCamera", CanvasOf("SphericalCamera"))

SpecSpherical == InitSpherical /\ [][NextSpherical]_vars

InitArcballSpherical == InitWith("ArcballCameraSpherical", CanvasOf("ArcballCameraSpherical"))

SpecArcballSpherical == InitArcballSpherical /\ [][NextArcballSpherical]_vars

InitFixed == InitWith("FixedCamera", CanvasOf("FixedCamera"))

SpecFixed == InitFixed /\ [][NextFixed]_vars

Init == \E c \in Cameras : InitWith(c, CanvasOf(c))

Next == NextArcball \/ NextTrackball \/ NextSpherical \/ NextArcballSpherical \/ NextFixed

Spec == Init /\ [][Next]_vars

\* The canvas follows the size of its element (Renderer.ts sets width and
\* height from clientWidth and clientHeight), down to a single pixel.
SmallCanvas == [width |-> 1, height |-> 1]

InitSmallCanvas == \E c \in Cameras : InitWith(c, SmallCanvas)

\* The pointer handlers of the cameras (a FixedCamera has none).
NextPointer ==
    \/ \E ev \in MouseEvents : Arcball_onMouseDown(ev)
    \/ \E ev \in MouseEvents : Arcball_onMouseMove(ev)
    \/ Arcball_onMouseUp
    \/ \E ev \in MouseEvents : Trackball_onMouseDown(ev)
    \/ \E ev \in MouseEvents : Trackball_onMouseMove(ev)
    \/ Trackball_onMouseUp
    \/ \E ev \in MouseEvents : Spherical_onMouseDown(ev)
    \/ \E ev \in MouseEvents : Spherical_onMouseMove(ev)
    \/ Spherical_onMouseUp
    \/ \E ev \in MouseEvents : ArcballSpherical_onMouseDown(ev)
    \/ \E ev \in MouseEvents : ArcballSpherical_onMouseMove(ev)
    \/ ArcballSpherical_onMouseUp

SpecSmallCanvas == InitSmallCanvas /\ [][NextPointer]_vars

\* The calls that place a camera, with the views and angles a caller may
\* pass: rotate by half a turn either way, -Math.PI and Math.PI, in theta,
\* and by nothing or a turn and a half, 3 * Math.PI, in phi.
NextViews ==
    \/ \E z \in ViewDistances, up \in ViewUps : Arcball_moveTo(z, up)
    \/ \E position \in FixedPositions : Fixed_moveTo(position)
    \/ \E z \in ViewDistances, up \in ViewUps : Trackball_resetView(z, up) /\ UNCHANGED renderer
    \/ \E deltaY \in WheelDeltas : Trackball_onWheel(deltaY)
    \/ \E z \in ViewDistances, up \in ViewUps : Spherical_resetView(z, up) /\ UNCHANGED renderer
    \/ \E dr \in WheelDeltas : Spherical_dolly(dr)
    \/ \E dtheta \in {-HalfTurn, HalfTurn}, dphi \in {0, 3 * HalfTurn} :
           Spherical_rotate(dtheta, dphi)

SpecViews == Init /\ [][NextViews]_vars

\* The Renderer drives the camera frame by frame.  The handlers of the
\* camera and loadModel run between frames: a frame is one synchronous call
\* of #loop.
NextRenderer ==
    \/ Renderer_loop
    \/ \E dt \in Dts : Renderer_update(dt)
    \/ Renderer_render
    \/ \E z \in ViewDistances : Renderer_loadModel(z)
    \/ renderer.pc = 0 /\ NextPointer

SpecRenderer == Init /\ [][NextRenderer]_vars

SpecHandlers == Init /\ [][NextHandlers]_vars

\* The application fetches a file and parses it before any model is loaded.
InitSTL ==
    /\ cam = "ArcballCamera"
    /\ canvas = CanvasOf("ArcballCamera")
    /\ now = 0
    /\ steps = 0
    /\ keysDown = {}
    /\ arcball = ArcballConstruct(<<0, 0, 4 * Scale>>, Zero3, <<0, Scale, 0>>)
    /\ trackball = TrackballConstruct(<<0, 0, 10 * Scale>>, Zero3, <<0, Scale, 0>>)
    /\ spherical = SphericalConstruct(<<0, 0, 4 * Scale>>, Zero3, <<0, Scale, 0>>)
    /\ arcballSpherical = ArcballSphericalConstruct(<<0, 0, 4 * Scale>>, Zero3, <<0, Scale, 0>>)
    /\ fixed = FixedConstruct(<<0, 0, 4 * Scale>>, <<0, 0, -Scale>>, <<0, Scale, 0>>, 45)
    /\ renderer = RendererConstruct
    /\ listeners = {}
    /\ stl \in {[parsed |-> "none", file |-> f] : f \in Files}
    /\ drag = NoDrag
    /\ last = Ran("construct", FALSE, "idle")
    /\ turned = [of |-> 0, by |-> 0]

NextSTL == STL_parse

SpecSTL == InitSTL /\ [][NextSTL]_vars

-----------------------------------------------------------------------------
(* Properties *)

\* A step in which the camera handled a call or an event (the clock alone
\* advancing is not one); `last` then names what it handled.
Handled == steps' = steps + 1

VelocityTags == {"rotatingVelocity", "panningVelocity"}

PointerTags == {"rotating", "panning"}

\* C1: while the ArcballCamera is animating, a pointer-down, pointer-up or
\* -leave, pointer-move, wheel, key-down or key-up event changes neither the
\* interaction (tag and payload) nor position, up, front, right; and the one
\* step that takes the camera out of `animating` is update(dt).
AnimatingIgnoresInput ==
    [][(Handled /\ arcball.animation.type = "animating")
          => /\ last'.op \in {"mousedown", "mouseup", "mousemove", "wheel", "keydown", "keyup"}
                   => arcball' = arcball
             /\ arcball'.animation.type # "animating" => last'.op = "update"]_vars

\* C1: a pointer-down has arrived during an animation that has already turned
\* the camera, and the animation goes on.
PointerDownDuringAnimation ==
    /\ last.op = "mousedown"
    /\ last.was = "animating"
    /\ arcball.animation.type = "animating"
    /\ arcball.animation.currentAngle > 0

\* C2: rotateWithAnimation called while an animation is active is dropped:
\* startTime, duration, angularVelocity, rotationAxis, currentAngle and
\* targetAngle of the active animation are as before the call.
RequestWhileAnimatingDropped ==
    [][(Handled /\ arcball.animation.type = "animating" /\ last'.op = "rotateWithAnimation")
          => arcball'.animation = arcball.animation]_vars

\* C4: the angle update(dt) has turned the camera for an animation never
\* exceeds the totalAngle the animation was asked for.
AnimationNeverOvershoots == Abs(turned.by) <= Abs(turned.of)

\* C5: an update(dt) that brings currentAngle to targetAngle or beyond
\* returns with the interaction idle.
TargetReachedClearsAtOnce ==
    [][(Handled /\ last'.op = "update" /\ arcball'.animation.type = "animating")
          => arcball'.animation.currentAngle < arcball'.animation.targetAngle]_vars

\* C6: an update(dt) of an animating ArcballCamera that finds the clock at
\* startTime + duration or later, or currentAngle at targetAngle or beyond,
\* clears the animation (and turns the camera no further).
EndConditionsBothChecked ==
    [][(/\ Handled
        /\ last'.op = "update"
        /\ arcball.animation.type = "animating"
        /\ \/ now >= arcball.animation.startTime + arcball.animation.duration
           \/ arcball.animation.currentAngle >= arcball.animation.targetAngle)
          => arcball' = [arcball EXCEPT !.animation = Idle]]_vars

\* C6: update has cleared an animation on its deadline, short of its angle.
ClearedOnDeadlineShortOfTarget ==
    /\ last.op = "update"
    /\ last.was = "animating"
    /\ arcball.animation = Idle
    /\ turned.of > 0
    /\ turned.by < turned.of

\* C3: in each camera with input handlers, a blur or focus event during
\* rotating, panning, rotatingVelocity or panningVelocity leaves the
\* interaction idle, and during `animating` leaves the animation as it is.
FocusLossEndsInteraction ==
    [][(Handled /\ last'.op = "blurfocus")
          => /\ Interaction.type \in PointerTags \cup VelocityTags => Interaction' = Idle
             /\ Interaction.type = "animating" => Interaction' = Interaction]_vars

\* C7: after TrackballCamera.dolly the eye is at least MinDistance from center
\* along front, and a dolly that would bring it closer leaves it at
\* center - MinDistance * front.
DollyKeepsStandoff ==
    [][(Handled /\ last'.op = "wheel" /\ cam = "TrackballCamera")
          => LET along == RawDot(subtract(trackball'.center, trackball'.position), trackball'.front)
                 reach == \E deltaY \in WheelDeltas :
                              /\ trackball'.position =
                                     scaleAndAdd(trackball.position, trackball.front,
                                                 -deltaY * SensitivityDolly)
                              /\ RawDot(subtract(trackball.center, trackball'.position),
                                        trackball.front) >= MinDistance * Scale * Scale
             IN  /\ along >= MinDistance * Scale * Scale
                 /\ reach \/ trackball'.position =
                                 scaleAndAdd(trackball.center, trackball.front, -MinDistance)]_vars

\* C8: a velocity interaction of the TrackballCamera is active only while a
\* key is held.
VelocityOnlyWhileKeyHeld ==
    trackball.interaction.type \in VelocityTags => keysDown # {}

\* C8: a frame tick has moved the camera for a velocity interaction while the
\* key that started it and a second key are held.
VelocityTickWithKeysHeld ==
    /\ last.op = "update"
    /\ trackball.interaction.type = "panningVelocity"
    /\ keysDown = {"ArrowUp", "KeyW"}
    /\ trackball.center # Zero3

\* C9: a key-up of the TrackballCamera clears a velocity interaction whatever
\* key is released, so none is active after it, and it leaves a rotating or
\* panning gesture as it is.
KeyUpClearsVelocity ==
    [][(Handled /\ last'.op = "keyup" /\ cam = "TrackballCamera")
          => /\ trackball.interaction.type \in VelocityTags => trackball' = [trackball EXCEPT !.interaction = Idle]
             /\ trackball'.interaction.type \notin VelocityTags
             /\ trackball.interaction.type \in PointerTags => trackball' = trackball]_vars

\* C9: the key-up of a key that starts no motion has cleared a rotation the
\* W key started, with W still held.
OtherKeyUpClearedVelocity ==
    /\ last.op = "keyup"
    /\ last.code = "Space"
    /\ last.was = "rotatingVelocity"
    /\ trackball.interaction = Idle
    /\ keysDown = {"KeyW"}

\* C10: in TrackballCamera and SphericalCamera a pointer-down with shift
\* starts panning and one without starts rotating, and the tag stays until a
\* pointer-up, pointer-leave, blur or focus (or the next pointer-down),
\* whatever the shift state of the pointer-moves in between.
GestureTagFixedAtPointerDown ==
    [][(Handled /\ cam \in {"TrackballCamera", "SphericalCamera"})
          => /\ last'.op = "mousedown"
                   => Interaction'.type = IF last'.shiftKey THEN "panning" ELSE "rotating"
             /\ (Interaction.type \in PointerTags
                   /\ last'.op \notin {"mousedown", "mouseup", "blurfocus"})
                   => Interaction'.type = Interaction.type]_vars

\* C10: a pointer-move carrying shift has arrived in a rotating gesture of the
\* TrackballCamera, and the gesture is still rotating.
ShiftMoveKeepsRotating ==
    /\ cam = "TrackballCamera"
    /\ last.op = "mousemove"
    /\ last.shiftKey
    /\ last.was = "rotating"
    /\ trackball.interaction.type = "rotating"

\* C11: a tick of the TrackballCamera in panningVelocity moves center and
\* position by the same direction * speed * dt / 1000, so position - center
\* is as before; in rotatingVelocity it is one rotate(axis, speed * dt / 1000)
\* about the stored axis.
VelocityTickMovesEyeAndCenter ==
    [][(Handled /\ last'.op = "update" /\ cam = "TrackballCamera")
          => LET i == trackball.interaction
             IN  /\ i.type = "panningVelocity" =>
                       /\ \E dt \in Dts :
                              /\ Divides(1000, i.speed * dt)
                              /\ trackball' =
                                     [trackball EXCEPT
                                         !.center = scaleAndAdd(@, i.direction, ExactDiv(i.speed * dt, 1000)),
                                         !.position = scaleAndAdd(@, i.direction, ExactDiv(i.speed * dt, 1000))]
                       /\ subtract(trackball'.position, trackball'.center)
                              = subtract(trackball.position, trackball.center)
                 /\ i.type = "rotatingVelocity" =>
                       \E dt \in Dts :
                           trackball' = TrackballRotate(trackball, i.axis,
                                                        QuarterTurns((i.speed * dt) \div 1000))]_vars

\* C11: a tick has turned the eye off the z axis about the axis the W key
\* stored, and the rotation is still on.
VelocityTickTurnedEye ==
    /\ last.op = "update"
    /\ last.was = "rotatingVelocity"
    /\ trackball.interaction.type = "rotatingVelocity"
    /\ trackball.position[2] # 0
    /\ trackball.position[3] = 0

\* C12: no handler, rotateWithAnimation call or tick of the ArcballCamera
\* ends in the "programming error" of the hemisphere projection: the
\* projection is only reached with the interaction `rotating`.
ProjectionOnlyWhileRotating == cam = "ArcballCamera" => ~last.threw

\* C12: a pointer-down after an animation has run its course has projected
\* the pointer and started a rotating gesture.
ProjectedAfterAnimation ==
    /\ cam = "ArcballCamera"
    /\ last.op = "mousedown"
    /\ ~last.shiftKey
    /\ last.was = "idle"
    /\ turned.by # 0
    /\ arcball.animation.type = "rotating"
    /\ arcball.animation.lastNormalizedCoordinates # Zero3

\* C13: on every canvas size, down to a width or height of 1, no pointer-down
\* or pointer-move handler divides by a zero sphere radius or canvas
\* dimension: the gesture's sphere points and the camera's vectors are numbers.
PointerHandlersGuardCanvasSize ==
    /\ \A v \in {arcball.position, arcball.up, arcball.front, arcball.right,
                 trackball.center, trackball.position, trackball.up,
                 trackball.front, trackball.right} : ~IsNaN(v)
    /\ arcball.animation.type = "rotating" =>
           /\ ~IsNaN(arcball.animation.lastNormalizedCoordinates)
           /\ ~IsNaN(arcball.animation.currentNormalizedCoordinates)
    /\ trackball.interaction.type = "rotating" =>
           /\ ~IsNaN(trackball.interaction.lastNormalizedCoordinates)
           /\ ~IsNaN(trackball.interaction.currentNormalizedCoordinates)
    /\ arcballSpherical.animation.type = "rotating" =>
           /\ ~IsNaN(arcballSpherical.animation.lastNormalizedCoordinates)
           /\ ~IsNaN(arcballSpherical.animation.currentNormalizedCoordinates)

\* C14: the basis derivation guards the degenerate configuration (position =
\* target, front parallel to up): whatever construction, resetView or dolly
\* was given, right and up of the camera are never left zero-length.
BasisNeverDegenerate ==
    /\ cam = "ArcballCamera" => Zero3 \notin {arcball.right, arcball.up}
    /\ cam = "TrackballCamera" => Zero3 \notin {trackball.right, trackball.up}
    /\ cam = "SphericalCamera" => Zero3 \notin {spherical.right, spherical.up}

\* C15: construction, resetView and moveTo of ArcballCamera, SphericalCamera
\* and TrackballCamera end with front, right and up pairwise orthogonal,
\* whatever up they were given.
DerivedBasisOrthogonal ==
    last.op \in {"construct", "resetView", "moveTo"} =>
        LET b == CASE cam = "ArcballCamera" -> arcball
                   [] cam = "TrackballCamera" -> trackball
                   [] OTHER -> spherical
        IN  cam # "ArcballCameraSpherical" =>
                /\ RawDot(b.front, b.right) = 0
                /\ RawDot(b.front, b.up) = 0
                /\ RawDot(b.right, b.up) = 0

\* C16: rotate keeps an orthonormal basis orthonormal: when front, up and
\* right of the ArcballCamera or TrackballCamera have length 1 and pairwise
\* dot product 0, they still do after an update(dt) or a pointer-move, the
\* two callers of rotate, whatever axis and angle these pass.
RotateKeepsOrthonormal ==
    [][LET Orthonormal(b) ==
               /\ \A v \in {b.front, b.up, b.right} : RawDot(v, v) = Scale * Scale
               /\ RawDot(b.front, b.up) = 0
               /\ RawDot(b.front, b.right) = 0
               /\ RawDot(b.up, b.right) = 0
       IN  (Handled /\ last'.op \in {"update", "mousemove"})
               => /\ (cam = "ArcballCamera" /\ Orthonormal(arcball)) => Orthonormal(arcball')
                  /\ (cam = "TrackballCamera" /\ Orthonormal(trackball)) => Orthonormal(trackball')]_vars

\* C16: the ArcballCamera has been turned by an animation and then by a
\* drag, and looks along a direction that is not the one it was built with.
TurnedByAnimationThenDrag ==
    /\ cam = "ArcballCamera"
    /\ last.op = "mousemove"
    /\ last.was = "rotating"
    /\ turned.by # 0
    /\ arcball.animation.lastNormalizedCoordinates # Zero3
    /\ arcball.front \notin {<<0, 0, -Scale>>, <<0, 0, Scale>>}

\* C17: in every navigation model, after construction or resetView, front
\* is a positive multiple of target - position: the unit vector from the
\* camera towards what it looks at.
FrontPointsAtTarget ==
    last.op \in {"construct", "resetView"} =>
        CASE cam = "ArcballCamera" ->
                 arcball.front = normalize(subtract(arcball.target, arcball.position))
          [] cam = "TrackballCamera" ->
                 trackball.front = normalize(subtract(trackball.center, trackball.position))
          [] cam = "SphericalCamera" ->
                 spherical.front = normalize(subtract(spherical.center, spherical.position))
          [] OTHER ->
                 arcballSpherical.front =
                     normalize(subtract(arcballSpherical.center, arcballSpherical.positionCartesian))

\* C18: the radial coordinate r of the SphericalCamera is never negative,
\* whatever dr dolly is given.
RadiusNeverNegative == spherical.coord.r >= 0

\* C19: wrappedAngleAdd returns an angle in (-pi, pi]: after every rotate
\* the theta of the SphericalCamera is more than -pi and at most pi.
ThetaInHalfOpenRange ==
    /\ spherical.coord.theta > -HalfTurn
    /\ spherical.coord.theta <= HalfTurn

\* C20: wrappedAngleAdd is periodic in 2 pi: the theta a rotate(d, 0) leaves
\* is the theta that adding d + 2 pi would have left.
WrapIsPeriodic ==
    [][(Handled /\ last'.op = "rotate")
          => \A d \in {-HalfTurn, HalfTurn} :
                 spherical' = SphericalRotate(spherical, d, 0)
                     => spherical'.coord.theta =
                            wrappedAngleAdd(spherical.coord.theta, d + 2 * HalfTurn)]_vars

\* C21: rotate(dtheta, dphi) leaves phi unwrapped: after the call phi is the
\* phi before it plus dphi, exactly, for every dphi.
PhiAccumulatesUnwrapped ==
    [][(Handled /\ last'.op = "rotate")
          => \A d \in {-HalfTurn, HalfTurn}, p \in {0, 3 * HalfTurn} :
                 spherical' = SphericalRotate(spherical, d, p)
                     => spherical'.coord.phi = spherical.coord.phi + p]_vars

\* C21, amended: rotate(dtheta, dphi) wraps phi as it wraps theta: after the
\* call phi lies in [-pi, pi] and differs from the phi before it plus dphi by
\* a whole number of turns.
PhiWrappedLikeTheta ==
    [][(Handled /\ last'.op = "rotate")
          => /\ spherical'.coord.phi \in -HalfTurn..HalfTurn
             /\ \A d \in {-HalfTurn, HalfTurn}, p \in {0, 3 * HalfTurn} :
                    spherical' = SphericalRotate(spherical, d, p)
                        => (spherical'.coord.phi - spherical.coord.phi - p) % (2 * HalfTurn) = 0]_vars

\* C21: a rotate by a turn and a half in phi has left phi at half a turn.
PhiWrappedToHalfTurn ==
    /\ cam = "SphericalCamera"
    /\ last.op = "rotate"
    /\ spherical.coord.phi = HalfTurn

PositionFollowsCoordinate ==
    cam = "SphericalCamera" =>
        spherical.position = add(spherical.center, sph2cart(spherical.coord))

\* C24: FixedCamera.moveTo(p) sets position to p and leaves front, up,
\* right and fov as they were; the camera holds no interaction state.
FixedMoveToSetsOnlyPosition ==
    [][(Handled /\ cam = "FixedCamera" /\ last'.op = "moveTo")
          => /\ fixed'.position \in FixedPositions
             /\ fixed' = [fixed EXCEPT !.position = fixed'.position]
             /\ DOMAIN fixed' = {"position", "front", "up", "right", "fov"}]_vars

\* C24: a FixedCamera has been moved off the axis it was constructed on.
FixedMovedAway ==
    /\ cam = "FixedCamera"
    /\ last.op = "moveTo"
    /\ fixed.position = <<Scale, Scale, 10 * Scale>>
    /\ fixed.front = <<0, 0, -Scale>>

\* C25: a frame of the Renderer calls camera.update(dt) once; what the frame
\* reads of the camera (projection matrix, view matrix, position) it reads
\* after that update, and an update finds none of its frame's readings made.
FrameUpdatesOnceThenReads ==
    [][/\ renderer'.updates <= 1
       /\ renderer'.reads # {} => renderer'.updates = 1
       /\ (renderer.pc # 0 /\ renderer'.pc = 0) => renderer'.updates = 1
       /\ (Handled /\ last'.op = "update") => (renderer.updates = 0 /\ renderer.reads = {})]_vars

\* C25: a frame has updated the camera and then read all three of it.
FrameReadAfterUpdate ==
    /\ renderer.pc = 0
    /\ renderer.updates = 1
    /\ renderer.reads = {"perspectiveProjectionMatrix", "cameraMatrix", "position"}
    /\ last.op = "update"

\* C26: update(dt), called on whichever camera was constructed and in
\* whichever interaction state it is, returns without raising.
UpdateNeverRaises == last.op = "update" => ~last.threw

\* C27: rotate keeps the eye at its distance from the origin: |position| of
\* the ArcballCamera and of the TrackballCamera is the same before and after
\* every step that calls rotate, which are the pointer-move of a rotating
\* drag and the update(dt) of an animation or of a velocity rotation.
RotateKeepsDistance ==
    [][(/\ Handled
        /\ last'.op \in {"update", "mousemove"}
        /\ last'.was \in {"rotating", "animating", "rotatingVelocity"})
          => /\ cam = "ArcballCamera" =>
                    RawDot(arcball'.position, arcball'.position)
                        = RawDot(arcball.position, arcball.position)
             /\ cam = "TrackballCamera" =>
                    RawDot(trackball'.position, trackball'.position)
                        = RawDot(trackball.position, trackball.position)]_vars

\* C27: a drag has turned the TrackballCamera off the z axis, where it was
\* built, and the eye is as far from the origin as it was.
DraggedOffAxis ==
    /\ cam = "TrackballCamera"
    /\ last.op = "mousemove"
    /\ last.was = "rotating"
    /\ trackball.position[1] # 0
    /\ RawDot(trackball.position, trackball.position) = 100 * Scale * Scale

\* C28: ArcballCamera.rotate turns position, up, front and right by the
\* conjugation q^-1 p q that TrackballCamera's rotateWithQuat computes: an
\* update(dt) that turns an animating ArcballCamera leaves each of the four
\* where TrackballCamera's helper takes it, for the quaternion of the
\* animation's axis and the angle of this frame.
RotateSameInBothCameras ==
    [][(Handled /\ cam = "ArcballCamera" /\ last'.op = "update" /\ last'.was = "animating")
          => \A dt \in Dts :
                 (arcball' = ArcballUpdateStep(arcball, dt) /\ arcball'.animation.type = "animating")
                     => LET q == setAxisAngle(arcball.animation.rotationAxis,
                                              QuarterTurns(arcball.animation.angularVelocity * dt))
                        IN  /\ arcball'.position = TrackballRotateWithQuat(arcball.position, q)
                            /\ arcball'.up = TrackballRotateWithQuat(arcball.up, q)
                            /\ arcball'.front = TrackballRotateWithQuat(arcball.front, q)
                            /\ arcball'.right = TrackballRotateWithQuat(arcball.right, q)]_vars

\* C29: with frames and the clock going on, an animating ArcballCamera
\* comes to be idle, whatever pointer, key, wheel and focus events arrive
\* meanwhile; and a pointer-down that finds the camera idle starts a gesture.
AnimationEventuallyEnds ==
    /\ (arcball.animation.type = "animating") ~> (arcball.animation.type = "idle")
    /\ [][(Handled /\ last'.op = "mousedown" /\ arcball.animation.type = "idle")
             => arcball'.animation.type \in PointerTags]_vars

\* C29: an animation has ended by its deadline, short of its target, and a
\* pointer-down after it has started a drag.
DragAfterAnimationEnded ==
    /\ turned.of # 0
    /\ Abs(turned.by) < Abs(turned.of)
    /\ last.op = "mousedown"
    /\ last.was = "idle"
    /\ arcball.animation.type = "rotating"

\* C30: while a velocity interaction of the TrackballCamera stays active its
\* payload (axis or direction, and speed) is as the key-down that started it
\* left it: a call or event that finds a velocity interaction and leaves one
\* leaves the same one, and a key-down that finds one changes nothing of the
\* camera.
VelocityPayloadConstant ==
    [][(Handled /\ cam = "TrackballCamera" /\ trackball.interaction.type \in VelocityTags)
          => /\ trackball'.interaction.type \in VelocityTags
                    => trackball'.interaction = trackball.interaction
             /\ last'.op = "keydown" => trackball' = trackball]_vars

\* C30: a velocity rotation about `right` has turned the camera in an
\* update, and then the key of the opposite rotation about `up` went down.
KeyDownDuringVelocityRotation ==
    /\ cam = "TrackballCamera"
    /\ last.op = "keydown"
    /\ last.code = "KeyD"
    /\ last.was = "rotatingVelocity"
    /\ trackball.position # <<0, 0, 10 * Scale>>
    /\ trackball.interaction = RotatingVelocity(<<Scale, 0, 0>>, QuarterTurnPerSecond)

\* C31: the cameras the application constructs and hands to the Renderer
\* (ArcballCamera in main.ts, SphericalCamera in its other entry point)
\* provide what the Renderer calls: neither a frame's update nor
\* loadModel's resetView raises on them.
RendererCallsProvided ==
    (cam \in {"ArcballCamera", "SphericalCamera"} /\ last.op \in {"update", "resetView"})
        => ~last.threw

\* C32: after detachEventHandlers() and until the handlers are attached
\* again, no input event changes the camera: a call or event other than
\* attach and detach that finds the keydown listener removed leaves the
\* ArcballCamera, the TrackballCamera and the SphericalCamera as they were.
DetachedCameraIgnoresInput ==
    [][(/\ Handled
        /\ "keydown" \notin listeners
        /\ last'.op \notin {"attachEventHandlers", "detachEventHandlers"})
          => <<arcball, trackball, spherical>>' = <<arcball, trackball, spherical>>]_vars

\* front is parallel to center - position and points the same way.
TrackballLooksAtCenter(t) ==
    /\ \A v \in {t.position, t.center, t.front} : Len(v) = 3
    /\ RawCross(t.front, subtract(t.center, t.position)) = Zero3
    /\ RawDot(t.front, subtract(t.center, t.position)) > 0

\* C33: in the TrackballCamera, pan, rotate, dolly, velocity ticks and
\* pointer drags keep the stored front parallel to center - position: a call
\* or event other than resetView that finds it so leaves it so. And a step
\* that calls rotate (the pointer-move of a rotating drag, the update(dt) of a
\* velocity rotation) leaves the eye as far from center as it was, wherever
\* panning has put the center.
FrontLooksAtCenter ==
    [][(/\ cam = "TrackballCamera"
        /\ Handled
        /\ last'.op # "resetView"
        /\ TrackballLooksAtCenter(trackball)
        /\ \A v \in {trackball'.position, trackball'.center, trackball'.front} : Len(v) = 3)
          => LET toCenter == subtract(trackball.center, trackball.position)
                 toCenterAfter == subtract(trackball'.center, trackball'.position)
             IN  /\ TrackballLooksAtCenter(trackball')
                 /\ (/\ last'.op \in {"update", "mousemove"}
                     /\ last'.was \in {"rotating", "rotatingVelocity"})
                       => RawDot(toCenterAfter, toCenterAfter) = RawDot(toCenter, toCenter)]_vars

\* C34: during an animation of the ArcballCamera, currentAngle is the sum of
\* the angles update(dt) has passed to rotate since rotateWithAnimation
\* installed the animation, whatever the dt of the ticks were.
CurrentAngleIsSumOfRotations ==
    (cam = "ArcballCamera" /\ arcball.animation.type = "animating")
        => arcball.animation.currentAngle = turned.by

\* C34: two ticks (or one long one) have turned an animating camera by half a
\* turn or more, and the animation is still installed.
AnimationTurnedHalfTurn ==
    /\ cam = "ArcballCamera"
    /\ arcball.animation.type = "animating"
    /\ last.op = "update"
    /\ turned.by >= HalfTurn
    /\ arcball.animation.currentAngle < arcball.animation.targetAngle

\* C35: an animation of the ArcballCamera asked for with a nonzero angle
\* turns the camera before it ends: when an update(dt) that arrives before
\* startTime + duration ends the animation, the ticks of the animation have
\* turned the camera by a nonzero angle of the sign asked for.
AnimationTurnsBeforeItEnds ==
    [][(/\ cam = "ArcballCamera"
        /\ Handled
        /\ last'.op = "update"
        /\ arcball.animation.type = "animating"
        /\ arcball'.animation.type = "idle"
        /\ turned.of # 0
        /\ now < arcball.animation.startTime + arcball.animation.duration)
          => turned'.by * turned.of > 0]_vars

\* C36: while a panning drag of the TrackballCamera or of the
\* SphericalCamera is under way, the deltas its pointer-moves have passed to
\* pan add up to the way from the pointer-down position to the last pointer
\* position (dx to the right, dy upwards as pan takes it): no movement is
\* counted twice or lost.
PanDeltasAddUpToDisplacement ==
    /\ (cam = "TrackballCamera" /\ trackball.interaction.type = "panning")
          => /\ drag.dx = trackball.interaction.lastMouseX - drag.downX
             /\ drag.dy = drag.downY - trackball.interaction.lastMouseY
    /\ (cam = "SphericalCamera" /\ spherical.interaction.type = "panning")
          => /\ drag.dx = spherical.interaction.lastMouseX - drag.downX
             /\ drag.dy = drag.downY - spherical.interaction.lastMouseY

\* C36: a pointer-move of a panning drag of the SphericalCamera has moved
\* the center, and the drag has passed nonzero deltas to pan in x and in y.
PannedAcrossAndUp ==
    /\ cam = "SphericalCamera"
    /\ spherical.interaction.type = "panning"
    /\ last.op = "mousemove"
    /\ last.was = "panning"
    /\ drag.dx # 0
    /\ drag.dy # 0
    /\ spherical.center # Zero3

\* C37: update(dt) that finds the TrackballCamera or the ArcballCamera
\* idle, rotating or panning, and a pointer-move that finds it idle, leave
\* the whole camera as it was: position, center or target, up, front, right
\* and the interaction with its payload.
IdleTickAndMoveChangeNothing ==
    [][(/\ cam \in {"TrackballCamera", "ArcballCamera"}
        /\ Handled
        /\ \/ last'.op = "update" /\ last'.was \in {"idle", "rotating", "panning"}
           \/ last'.op = "mousemove" /\ last'.was = "idle")
          => trackball' = trackball /\ arcball' = arcball]_vars

\* C37: update(dt) has found the TrackballCamera in a rotating drag that had
\* turned it off the z axis, and the drag goes on.
TickDuringRotatingDrag ==
    /\ cam = "TrackballCamera"
    /\ last.op = "update"
    /\ last.was = "rotating"
    /\ trackball.interaction.type = "rotating"
    /\ Len(trackball.position) = 3
    /\ trackball.position[1] # 0

\* C38: STL.parse throws an STLParseError or returns an STL and nothing
\* else.  It throws for a buffer shorter than 84 bytes, for a header that
\* holds the text "solid", and for a byte length other than 84 + 50 times
\* the little-endian uint32 at offset 80.  The STL it returns has that count
\* as triangleCount and 18 floats per triangle, and no read has passed the
\* end of the buffer.
ParseThrowsOrReturns ==
    stl.parsed # "none" =>
        LET file == stl.file
            field == file.count[1] + 256 * (file.count[2] + 256 * (file.count[3] + 256 * file.count[4]))
            holdsSolid == \E k \in 1..(Len(file.header) - 4) :
                              \A n \in 0..4 : file.header[k + n] = Solid[n + 1]
        IN  /\ stl.parsed \in {"STL", "STLParseError"}
            /\ (\/ file.byteLength < 84
                \/ holdsSolid
                \/ file.byteLength # 84 + 50 * field) => stl.parsed = "STLParseError"
            /\ stl.parsed = "STL" =>
                  /\ stl.triangleCount = field
                  /\ Len(stl.vertices) = 18 * stl.triangleCount
                  /\ stl.i <= file.byteLength

\* C38: a file of two triangles has been parsed and returned, read to its
\* last byte.
ParsedTwoTriangles ==
    /\ stl.parsed = "STL"
    /\ stl.triangleCount = 2
    /\ stl.i = stl.file.byteLength
    /\ Len(stl.vertices) = 36

\* A float is a number, neither an infinity nor NaN.
IsFinite(x) == x.k = "num"

\* C39: every STL that STL.parse returns, one of no triangle included, has
\* a well-formed bounding box: in x, y and z min is at most max, scale is
\* max - min and not negative, and center is finite.
BoundingBoxWellFormed ==
    stl.parsed = "STL" =>
        \A c \in 1..3 :
            LET box == stl.boundingBox
            IN  /\ ~FloatLess(box.max[c], box.min[c])
                /\ box.min[c].k # "nan" /\ box.max[c].k # "nan"
                /\ box.scale[c] = FloatSubtract(box.max[c], box.min[c])
                /\ ~FloatLess(box.scale[c], Float(0))
                /\ box.scale[c].k # "nan"
                /\ IsFinite(box.center[c])

====
